---- MODULE Spec2Model ----
(***************************************************************************)
(* CARG GeoPackage -> shapefile conversion (BDgpkg2shape.py).              *)
(*                                                                         *)
(* The module models                                                       *)
(*   - the domain registry (load_domain_mappings / apply_domain_mapping),  *)
(*   - the field cleanup with its "never empty" rescue,                    *)
(*   - the field standardizer,                                             *)
(*   - the layer lookup by search pattern,                                 *)
(*   - the orchestration of one run (process_all_optimized) with the       *)
(*     per-theme steps and the final append of the pieghe output.          *)
(*                                                                         *)
(* Python values are records [k, n, s]: k is the type ("none", "int",      *)
(* "float", "str"), n the number in hundredths (an int n is stored as      *)
(* 100*n) and s the text as a sequence of one-character strings.           *)
(***************************************************************************)
EXTENDS Integers, Sequences, FiniteSets, TLC

\* ------------------------------------------------------------------------
\* Bounds of the model
\* ------------------------------------------------------------------------
\* longest domain table drawn (rows)
MaxRows == 2

\* ------------------------------------------------------------------------
\* Python values and text
\* ------------------------------------------------------------------------
PyNone == [k |-> "none", n |-> 0, s |-> <<>>]

PyInt(i) == [k |-> "int", n |-> 100 * i, s |-> <<>>]

\* a float given in hundredths: PyFloat(170) is 1.7
PyFloat(h) == [k |-> "float", n |-> h, s |-> <<>>]

PyText(t) == [k |-> "str", n |-> 0, s |-> t]

Abs(i) == IF i < 0 THEN -i ELSE i

DigitChars == <<"0", "1", "2", "3", "4", "5", "6", "7", "8", "9">>

DigitSet == {DigitChars[i] : i \in 1..10}

DigitValue(c) == (CHOOSE i \in 1..10 : DigitChars[i] = c) - 1

RECURSIVE NatStr(_)
\* decimal digits of a natural number
NatStr(i) == IF i < 10 THEN <<DigitChars[i + 1]>>
             ELSE NatStr(i \div 10) \o <<DigitChars[(i % 10) + 1]>>

\* str() of an int
IntStr(i) == IF i < 0 THEN <<"-">> \o NatStr(-i) ELSE NatStr(i)

\* str() of a float with at most two decimals: 1.0 -> "1.0", 1.7 -> "1.7"
FloatStr(h) ==
    LET a == Abs(h)
        frac == a % 100
        fracStr == IF frac % 10 = 0 THEN <<DigitChars[(frac \div 10) + 1]>>
                   ELSE <<DigitChars[(frac \div 10) + 1], DigitChars[(frac % 10) + 1]>>
    IN (IF h < 0 THEN <<"-">> ELSE <<>>) \o NatStr(a \div 100) \o <<".">> \o fracStr

\* str(value)
PyStr(v) == CASE v.k = "str" -> v.s
              [] v.k = "int" -> IntStr(v.n \div 100)
              [] v.k = "float" -> FloatStr(v.n)
              [] OTHER -> <<"N", "o", "n", "e">>

RECURSIVE LStrip(_)
LStrip(t) == IF t # <<>> /\ Head(t) = " " THEN LStrip(Tail(t)) ELSE t

RECURSIVE RStrip(_)
RStrip(t) == IF t # <<>> /\ t[Len(t)] = " " THEN RStrip(SubSeq(t, 1, Len(t) - 1)) ELSE t

\* text.strip()
Strip(t) == RStrip(LStrip(t))

\* text.replace(c, '')
Remove(t, c) == SelectSeq(t, LAMBDA x : x # c)

\* text.isdigit()
IsDigit(t) == t # <<>> /\ \A i \in 1..Len(t) : t[i] \in DigitSet

\* position of the decimal point, 0 when there is none
DotPos(t) == IF \E i \in 1..Len(t) : t[i] = "." THEN CHOOSE i \in 1..Len(t) : t[i] = "." ELSE 0

RECURSIVE DigitsValue(_)
DigitsValue(t) == IF t = <<>> THEN 0
                  ELSE 10 * DigitsValue(SubSeq(t, 1, Len(t) - 1)) + DigitValue(t[Len(t)])

\* the unsigned body of a float literal: digits with at most one point and
\* at least one digit
FloatBodyOK(b) ==
    LET p == DotPos(b)
        whole == IF p = 0 THEN b ELSE SubSeq(b, 1, p - 1)
        frac == IF p = 0 THEN <<>> ELSE SubSeq(b, p + 1, Len(b))
    IN /\ \A i \in 1..Len(whole) : whole[i] \in DigitSet
       /\ \A i \in 1..Len(frac) : frac[i] \in DigitSet
       /\ Len(whole) + Len(frac) > 0
       /\ Len(frac) <= 2

FloatBodyValue(b) ==
    LET p == DotPos(b)
        whole == IF p = 0 THEN b ELSE SubSeq(b, 1, p - 1)
        frac == IF p = 0 THEN <<>> ELSE SubSeq(b, p + 1, Len(b))
    IN 100 * DigitsValue(whole)
         + (IF Len(frac) = 0 THEN 0
            ELSE IF Len(frac) = 1 THEN 10 * DigitsValue(frac)
            ELSE DigitsValue(frac))

\* float(text) succeeds (surrounding blanks and one leading sign allowed)
FloatOK(t) ==
    LET u == Strip(t)
    IN /\ u # <<>>
       /\ FloatBodyOK(IF Head(u) \in {"-", "+"} THEN Tail(u) ELSE u)

\* float(text) in hundredths
FloatValue(t) ==
    LET u == Strip(t)
    IN IF Head(u) = "-" THEN -FloatBodyValue(Tail(u))
       ELSE IF Head(u) = "+" THEN FloatBodyValue(Tail(u))
       ELSE FloatBodyValue(u)

\* int(float) truncates toward zero; the result again in hundredths
IntOfFloat(h) == IF h < 0 THEN -(100 * ((-h) \div 100)) ELSE 100 * (h \div 100)

\* ------------------------------------------------------------------------
\* Dictionary keys: 1 and 1.0 hash and compare equal, "1" is another key
\* ------------------------------------------------------------------------
NumKey(h) == [k |-> "num", n |-> h, s |-> <<>>]

StrKey(t) == [k |-> "str", n |-> 0, s |-> t]

KeyOf(v) == IF v.k = "str" THEN StrKey(v.s) ELSE NumKey(v.n)

EmptyMap == [x \in {} |-> <<>>]

\* code_map[key] = desc
MapPut(m, key, desc) == [x \in (DOMAIN m) \cup {key} |-> IF x = key THEN desc ELSE m[x]]

RECURSIVE MapPutAll(_, _, _)
MapPutAll(m, keys, desc) == IF keys = <<>> THEN m
                            ELSE MapPutAll(MapPut(m, Head(keys), desc), Tail(keys), desc)

\* ------------------------------------------------------------------------
\* Domain registry
\* ------------------------------------------------------------------------
\* the keys one table row is stored under (keys_to_map)
KeysToMap(code) ==
    LET text == PyStr(code)
        first == <<StrKey(Strip(text))>>
    IN IF IsDigit(Remove(Remove(text, "."), "-"))
       THEN IF FloatOK(text)
            THEN first \o <<KeyOf(code), NumKey(FloatValue(text)),
                            NumKey(IntOfFloat(FloatValue(text)))>>
            ELSE first \o <<KeyOf(code)>>
       ELSE first

RECURSIVE LoadRows(_, _)
\* the cursor loop of load_domain_mappings: rows with a null code or a null
\* description are passed over, later rows overwrite earlier ones
LoadRows(m, rows) ==
    IF rows = <<>> THEN m
    ELSE LET r == Head(rows)
         IN IF r.code.k # "none" /\ r.desc.k # "none"
            THEN LoadRows(MapPutAll(m, KeysToMap(r.code), Strip(PyStr(r.desc))), Tail(rows))
            ELSE LoadRows(m, Tail(rows))

\* load_domain_mappings on a table [exists, hasDesc, hasCode, rows]
LoadDomainMappings(table) ==
    IF ~table.exists THEN EmptyMap
    ELSE IF ~table.hasDesc THEN EmptyMap
    ELSE IF ~table.hasCode THEN EmptyMap
    ELSE LoadRows(EmptyMap, table.rows)

\* the store fails while the table is read: when its fields are listed, or
\* when the cursor over the two columns is opened or moved
ReadFails(table) ==
    /\ table.exists
    /\ \/ table.fault = "fields"
       \/ table.fault = "cursor" /\ table.hasDesc /\ table.hasCode

\* a load whose handler lets the failure out
LoadOutcome_Reraise(table) ==
    IF ReadFails(table) THEN [raised |-> TRUE, map |-> EmptyMap]
    ELSE [raised |-> FALSE, map |-> LoadDomainMappings(table)]

\* load_domain_mappings as its caller sees it: every failure inside the try
\* block ends in the handler, which warns and returns {}
LoadOutcome(table) ==
    IF ReadFails(table) THEN [raised |-> FALSE, map |-> EmptyMap]
    ELSE [raised |-> FALSE, map |-> LoadDomainMappings(table)]

\* the value apply_domain_mapping writes for one source value
MappedValue(code_map, src_val) ==
    IF src_val.k = "none" THEN <<>>
    ELSE IF KeyOf(src_val) \in DOMAIN code_map THEN code_map[KeyOf(src_val)]
    ELSE LET str_val == Strip(PyStr(src_val))
         IN IF StrKey(str_val) \in DOMAIN code_map THEN code_map[StrKey(str_val)]
            ELSE IF FloatOK(str_val)
                 THEN LET float_val == FloatValue(str_val)
                      IN IF NumKey(float_val) \in DOMAIN code_map
                         THEN code_map[NumKey(float_val)]
                         ELSE IF NumKey(IntOfFloat(float_val)) \in DOMAIN code_map
                              THEN code_map[NumKey(IntOfFloat(float_val))]
                              ELSE <<>>
                 ELSE <<>>

\* the text _apply_geology_mappings_batch writes for one code joined from an
\* auxiliary table: domain_mappings[k].get(temp, "")
GeologyValue(code_map, temp) ==
    IF StrKey(temp) \in DOMAIN code_map THEN code_map[StrKey(temp)] ELSE <<>>

NonClassificato == <<"Non classificato">>

NonDefinito == <<"Non definito">>

\* the text _apply_t1000_mappings_gdb_fixed writes for one joined code:
\* domain_mappings.get(k, {}).get(raw, raw) if raw else missing
GeologyValueGdb(code_map, raw, missing) ==
    IF raw = <<>> THEN missing
    ELSE IF StrKey(raw) \in DOMAIN code_map THEN code_map[StrKey(raw)]
    ELSE raw

\* the text _add_foglio_field of the geopackage converter writes into
\* Foglio: self.foglio, whatever d_foglio.dbf holds
FoglioValue(code_map, foglio) == foglio

\* the text _add_foglio_field of the converter for ArcGIS Pro writes:
\* self.foglio when the map is empty, else foglio_domain.get(foglio, foglio)
FoglioValuePro(code_map, foglio) ==
    IF code_map = EmptyMap THEN foglio
    ELSE IF StrKey(foglio) \in DOMAIN code_map THEN code_map[StrKey(foglio)]
    ELSE foglio

\* ------------------------------------------------------------------------
\* Sequences of field names
\* ------------------------------------------------------------------------
SeqToSet(q) == {q[i] : i \in 1..Len(q)}

\* q without the members of S, in the order of q
Without(q, S) == SelectSeq(q, LAMBDA x : x \notin S)

\* list.remove(x): drops the first occurrence
RemoveFirst(q, x) ==
    IF \E i \in 1..Len(q) : q[i] = x
    THEN LET i == CHOOSE j \in 1..Len(q) : q[j] = x /\ \A h \in 1..(j - 1) : q[h] # x
         IN SubSeq(q, 1, i - 1) \o SubSeq(q, i + 1, Len(q))
    ELSE q

\* a field of a shapefile as ListFields reports it
\* a field and what its column holds: "values" of the source layer, "empty"
\* after AddField, "resolved" descriptions of a domain, "joined" values of an
\* auxiliary table, a "literal", the "flag" or the "sheet" id
FieldWith(name, type, content) == [name |-> name, type |-> type, content |-> content]

Field(name, type) == FieldWith(name, type, "values")

FieldNames(fields) == [i \in 1..Len(fields) |-> fields[i].name]

\* the names of the fields that are neither the object id nor the geometry
DataFieldNames(fields) ==
    FieldNames(SelectSeq(fields, LAMBDA f : f.type \notin {"OID", "Geometry"}))

\* ------------------------------------------------------------------------
\* Cleanup of the output fields (_cleanup_output_fields)
\* ------------------------------------------------------------------------
system_fields == {"FID", "Shape"}

priority_fields == <<"Foglio", "Tipo_g_txt", "Tipo_G_txt", "Tipol_txt", "Fase_txt",
                     "Tipo_geo", "Tipologia", "Fase", "Label", "Num_Oss", "Pun_Gmo",
                     "Lin_Gmo", "Pol_Gmo", "Num_Ris">>

\* the fields the configuration, the system and an existing Foglio protect
FieldsToKeep(fields, keep_fields) ==
    SeqToSet(keep_fields) \cup system_fields
        \cup (IF "Foglio" \in SeqToSet(FieldNames(fields)) THEN {"Foglio"} ELSE {})

\* the deletion list before the security check
FieldsToDelete(fields, keep_fields) ==
    Without(DataFieldNames(fields), FieldsToKeep(fields, keep_fields))

\* the data fields that would survive the deletion list
RemainingDataFields(fields, to_delete) ==
    Without(DataFieldNames(fields), SeqToSet(to_delete) \cup system_fields)

\* the first priority field found in the deletion list, "" when there is none
FirstPriority(to_delete) ==
    IF \E i \in 1..Len(priority_fields) : priority_fields[i] \in SeqToSet(to_delete)
    THEN priority_fields[CHOOSE i \in 1..Len(priority_fields) :
                            /\ priority_fields[i] \in SeqToSet(to_delete)
                            /\ \A j \in 1..(i - 1) : priority_fields[j] \notin SeqToSet(to_delete)]
    ELSE ""

\* a security check that takes a field out of the deletion list even when a
\* kept data field remains
RescuedField_Always(fields, keep_fields) ==
    LET to_delete == FieldsToDelete(fields, keep_fields)
    IN IF FirstPriority(to_delete) # "" THEN FirstPriority(to_delete)
       ELSE IF to_delete # <<>> THEN to_delete[1]
       ELSE ""

\* the field the security check takes out of the deletion list, "" for none
RescuedField(fields, keep_fields) ==
    LET to_delete == FieldsToDelete(fields, keep_fields)
    IN IF Len(RemainingDataFields(fields, to_delete)) # 0 THEN ""
       ELSE IF FirstPriority(to_delete) # "" THEN FirstPriority(to_delete)
       ELSE IF to_delete # <<>> THEN to_delete[1]
       ELSE ""

\* the deletion list after the security check
FinalFieldsToDelete(fields, keep_fields) ==
    LET to_delete == FieldsToDelete(fields, keep_fields)
        rescued == RescuedField(fields, keep_fields)
    IN IF rescued = "" THEN to_delete ELSE RemoveFirst(to_delete, rescued)

\* a cleanup whose final check never raises
CleanupOutputFields_NoFinalCheck(fields, keep_fields, undeletable) ==
    LET to_delete == FinalFieldsToDelete(fields, keep_fields)
        deleted == IF SeqToSet(to_delete) \cap undeletable = {}
                   THEN SeqToSet(to_delete)
                   ELSE SeqToSet(to_delete) \ undeletable
        left == SelectSeq(fields, LAMBDA f : f.name \notin deleted)
    IN [raised |-> FALSE, fields |-> left]

\* _cleanup_output_fields: undeletable are the fields DeleteField refuses;
\* the batch deletion is tried first and, when it raises, each field of the
\* list is deleted on its own.  The result tells whether the final check
\* raised and gives the fields of the file.
CleanupOutputFields(fields, keep_fields, undeletable) ==
    LET to_delete == FinalFieldsToDelete(fields, keep_fields)
        deleted == IF SeqToSet(to_delete) \cap undeletable = {}
                   THEN SeqToSet(to_delete)
                   ELSE SeqToSet(to_delete) \ undeletable
        left == SelectSeq(fields, LAMBDA f : f.name \notin deleted)
    IN [raised |-> Len(DataFieldNames(left)) = 0, fields |-> left]

\* ------------------------------------------------------------------------
\* Files of the output folder and of the scratch folder
\* ------------------------------------------------------------------------
\* a shapefile: whether it exists, its feature count, its fields
File(rows, fields) == [exists |-> TRUE, rows |-> rows, fields |-> fields]

NoFile == [exists |-> FALSE, rows |-> 0, fields |-> <<>>]

\* name.upper() for the field names that occur in more than one case; every
\* other name stands for its own upper case
Upper(name) ==
    CASE name \in {"Foglio", "FOGLIO"} -> "FOGLIO"
      [] name \in {"Tipo", "TIPO"} -> "TIPO"
      [] name \in {"Tipo_geo", "Tipo_Geo"} -> "TIPO_GEO"
      [] name \in {"Tipo_g_txt", "Tipo_G_txt"} -> "TIPO_G_TXT"
      [] name \in {"ETA_super", "ETA_Super"} -> "ETA_SUPER"
      [] name \in {"ETA_infer", "ETA_Infer"} -> "ETA_INFER"
      [] name \in {"tipo_ug", "Tipo_UG"} -> "TIPO_UG"
      [] name \in {"Sigla_ug", "Sigla_UG"} -> "SIGLA_UG"
      [] name \in {"Uc_Lege", "UC_LEGE"} -> "UC_LEGE"
      [] name \in {"Num_Ris", "NUM_RIS"} -> "NUM_RIS"
      [] OTHER -> name

UpperSet(names) == {Upper(n) : n \in names}

\* all orders a set of names can be listed in
RECURSIVE Perms(_)
Perms(S) == IF S = {} THEN {<<>>}
            ELSE UNION { { <<x>> \o q : q \in Perms(S \ {x}) } : x \in S }

\* ------------------------------------------------------------------------
\* Field standards (_get_field_standards)
\* ------------------------------------------------------------------------
StandardFiles ==
    {"geologia_punti.shp", "geologia_linee.shp", "geologia_linee_pieghe.shp",
     "geologia_poligoni.shp", "geomorfologia_punti.shp", "geomorfologia_linee.shp",
     "geomorfologia_poligoni.shp", "risorse_prospezioni.shp"}

GeologyLinesOrder ==
    <<"FID", "Shape", "Foglio", "Fase", "Affiora", "Tipo_Geo", "Contorno",
      "Tipologia", "Direzione">>

GeologyLinesMappings ==
    ("Affior_txt" :> "Affiora") @@ ("Tipo_g_txt" :> "Tipo_Geo") @@ ("Cont_txt" :> "Contorno")
        @@ ("Tipol_txt" :> "Tipologia") @@ ("Fase_txt" :> "Fase")

GeomorphologyMappings ==
    ("Tipo_G_txt" :> "Tipo_Gmrf") @@ ("Stato_txt" :> "Stato") @@ ("Tipol_txt" :> "Tipologia")

field_standards ==
    [f \in StandardFiles |->
        CASE f = "geologia_punti.shp" ->
               [field_order |-> <<"FID", "Shape", "Num_Oss", "Quota", "Foglio", "Tipo_Geo",
                                  "Inclinaz", "Asimmetria", "Fase", "Immersione", "Verso",
                                  "Direzione", "Tipologia">>,
                field_mappings |-> ("Tipo_g_txt" :> "Tipo_Geo") @@ ("Asimm_txt" :> "Asimmetria")
                                     @@ ("Fase_txt" :> "Fase") @@ ("Verso_txt" :> "Verso")
                                     @@ ("Tipol_txt" :> "Tipologia")]
          [] f = "geologia_linee.shp" ->
               [field_order |-> GeologyLinesOrder, field_mappings |-> GeologyLinesMappings]
          [] f = "geologia_linee_pieghe.shp" ->
               [field_order |-> GeologyLinesOrder, field_mappings |-> GeologyLinesMappings]
          [] f = "geologia_poligoni.shp" ->
               [field_order |-> <<"FID", "Shape", "Pol_Uc", "Uc_Lege", "Foglio", "Tipo_UQ",
                                  "Stato_UQ", "ETA_Super", "ETA_Infer", "Tipo_UG", "Tessitura",
                                  "Sigla1", "Sigla_UG", "Nome", "Legenda", "Sommerso",
                                  "Direzione">>,
                field_mappings |-> ("ETA_super" :> "ETA_Super") @@ ("ETA_infer" :> "ETA_Infer")
                                     @@ ("tipo_ug" :> "Tipo_UG") @@ ("Sigla_ug" :> "Sigla_UG")
                                     @@ ("Sommerso_" :> "Sommerso")]
          [] f = "geomorfologia_punti.shp" ->
               [field_order |-> <<"FID", "Shape", "Pun_Gmo", "Foglio", "Tipo_Gmrf", "Stato",
                                  "Tipologia", "Direzione">>,
                field_mappings |-> GeomorphologyMappings]
          [] f = "geomorfologia_linee.shp" ->
               [field_order |-> <<"FID", "Shape", "Lin_Gmo", "Label", "Foglio", "Tipo_Gmrf",
                                  "Stato", "Tipologia">>,
                field_mappings |-> GeomorphologyMappings]
          [] f = "geomorfologia_poligoni.shp" ->
               [field_order |-> <<"FID", "Shape", "Pol_Gmo", "Foglio", "Tipo_Gmrf", "Stato",
                                  "Tipologia", "Direzione">>,
                field_mappings |-> GeomorphologyMappings]
          [] OTHER ->
               [field_order |-> <<"FID", "Shape", "Num_Ris", "Label1", "Label2", "Label3",
                                  "Foglio", "Tipo">>,
                field_mappings |-> ("Tipo_txt" :> "Tipo")] ]

\* _get_field_type_from_name, as the type ListFields reports for the field
\* AddField creates: the names holding a numeric pattern, then those holding
\* an integer pattern, then text
GetFieldTypeFromName(field_name) ==
    IF Upper(field_name) \in {"Area", "Perimeter", "Length", "Quota", "Inclinaz",
                              "Immersione", "Direzione"} THEN "Double"
    ELSE IF Upper(field_name) \in {"Num_Oss", "NUM_RIS"} THEN "Integer"
    ELSE "String"

\* ------------------------------------------------------------------------
\* Schema standardizer (standardize_field_names_and_order)
\* ------------------------------------------------------------------------
\* the object id and the geometry every shapefile starts with
SystemFieldList == <<Field("FID", "OID"), Field("Shape", "Geometry")>>

\* existing_fields_info: the names of the fields that are not the object id
ExistingFieldNames(fields) ==
    SeqToSet(FieldNames(SelectSeq(fields, LAMBDA f : f.type # "OID")))

FieldTypeOf(fields, name) ==
    fields[CHOOSE i \in 1..Len(fields) : fields[i].name = name].type

\* the source of a target field: the existing old name the mappings rename
\* to it, else the target itself when it exists, else ""
SourceFieldName(field_mappings_dict, target, existing) ==
    IF \E old \in DOMAIN field_mappings_dict :
           field_mappings_dict[old] = target /\ old \in existing
    THEN CHOOSE old \in DOMAIN field_mappings_dict :
           field_mappings_dict[old] = target /\ old \in existing
    ELSE IF target \in existing THEN target
    ELSE ""

FieldMap(source, out) == [source |-> source, out |-> out]

\* first pass over the target order from position i.  acc holds the fields
\* of the file (AddField changes the file itself), the field maps built so
\* far, the processed source names and whether AddField raised.  clash tells
\* what AddField does with a name the file already has in another case: it
\* raises, or it warns and adds nothing.
RECURSIVE FirstPass(_, _, _, _)
FirstPass(config, i, acc, clash) ==
    IF i > Len(config.field_order) \/ acc.raised THEN acc
    ELSE LET target == config.field_order[i]
             existing == ExistingFieldNames(acc.fields)
             source == SourceFieldName(config.field_mappings, target, existing)
         IN IF target \in {"FID", "Shape"} THEN FirstPass(config, i + 1, acc, clash)
            ELSE IF source # ""
                 THEN FirstPass(config, i + 1,
                                [acc EXCEPT !.maps = Append(@, FieldMap(source, target)),
                                            !.processed = @ \cup {source}], clash)
            ELSE IF Upper(target) \in UpperSet(SeqToSet(FieldNames(acc.fields)))
                 THEN IF clash = "raise" THEN [acc EXCEPT !.raised = TRUE]
                      ELSE FirstPass(config, i + 1, acc, clash)
            ELSE FirstPass(config, i + 1,
                           [acc EXCEPT !.fields = Append(@, FieldWith(target, GetFieldTypeFromName(target), "empty")),
                                       !.maps = Append(@, FieldMap(target, target)),
                                       !.processed = @ \cup {target}], clash)

FirstPassOf(name, file, clash) ==
    FirstPass(field_standards[name], 1,
              [fields |-> file.fields, maps |-> <<>>, processed |-> {}, raised |-> FALSE],
              clash)

\* a second pass that appends nothing
RemainingFieldNames_None(first) == {}

\* the fields the second pass appends: every field the first pass did not
\* consume that is neither the object id nor the geometry
RemainingFieldNames(first) ==
    SeqToSet(DataFieldNames(first.fields)) \ first.processed

\* two output fields of the field mappings share a name, or one takes the
\* name of a system field
HasDuplicateOutputs(maps) ==
    \/ Cardinality({ Upper(maps[i].out) : i \in 1..Len(maps) }) < Len(maps)
    \/ \E i \in 1..Len(maps) : maps[i].out \in {"FID", "Shape"}

\* the output names of the conversion: a name that is taken gets a suffix
RECURSIVE OutputFieldNames(_, _, _)
OutputFieldNames(maps, i, taken) ==
    IF i > Len(maps) THEN <<>>
    ELSE LET name == IF Upper(maps[i].out) \in taken THEN maps[i].out \o "_1"
                     ELSE maps[i].out
         IN <<name>> \o OutputFieldNames(maps, i + 1, taken \cup {Upper(name)})

\* the fields of the converted copy: the system fields, then one field per
\* field map, named as the map says and typed as its source
ConvertedFields(fields, maps) ==
    LET names == OutputFieldNames(maps, 1, {"FID", "Shape"})
    IN SystemFieldList
         \o [i \in 1..Len(maps) |->
                FieldWith(names[i], FieldTypeOf(fields, maps[i].source),
                          fields[CHOOSE j \in 1..Len(fields) :
                                    fields[j].name = maps[i].source].content)]

\* one run of the standardizer on a file of a known theme, from the result
\* of its first pass on.  env gives what the store does: outcome is "ok", or
\* the conversion, the deletion of the original or the rename of the copy
\* fails; order is the order in which the dictionary of existing fields
\* yields the remaining ones; dup tells whether a conversion with two equal
\* output names raises or suffixes.  Every exception is caught: the
\* temporary copy is deleted and the file is left as it then is.
StandardizeWith(first, file, env) ==
    LET changed == [file EXCEPT !.fields = first.fields]
        maps == first.maps \o [i \in 1..Len(env.order) |->
                                  FieldMap(env.order[i], env.order[i])]
    IN IF first.raised THEN changed
       ELSE IF Len(maps) = 0 THEN changed
       ELSE IF env.outcome = "convert_fail" THEN changed
       ELSE IF HasDuplicateOutputs(maps) /\ env.dup = "raise" THEN changed
       ELSE IF env.outcome = "delete_fail" THEN changed
       ELSE IF env.outcome = "rename_fail" THEN NoFile
       ELSE [file EXCEPT !.fields = ConvertedFields(first.fields, maps)]

StandardizeOutcomes == {"ok", "convert_fail", "delete_fail", "rename_fail"}

\* the orders the second pass can take after a first pass.  The order only
\* shows in the converted copy: when the first pass raises there is no
\* second pass, and under a failing outcome one order stands for all.
SecondPassOrders(first, outcome) ==
    IF first.raised THEN {<<>>}
    ELSE IF outcome = "ok" THEN Perms(RemainingFieldNames(first))
    ELSE { SelectSeq(DataFieldNames(first.fields),
                     LAMBDA n : n \in RemainingFieldNames(first)) }

\* the run reaches its last message: nothing raised and the rebuilt copy
\* took the place of the file
StandardizeCompletes(first, env) ==
    LET maps == first.maps \o [i \in 1..Len(env.order) |->
                                  FieldMap(env.order[i], env.order[i])]
    IN /\ ~first.raised
       /\ Len(maps) > 0
       /\ env.outcome = "ok"
       /\ ~(HasDuplicateOutputs(maps) /\ env.dup = "raise")

\* every run of the standardizer under an outcome: the file it leaves and
\* whether it completed; a file of no known theme, or no file, is left alone
StandardizeRuns(name, file, outcome) ==
    IF name \notin StandardFiles \/ ~file.exists
    THEN {[file |-> file, completed |-> FALSE]}
    ELSE UNION { LET first == FirstPassOf(name, file, c)
                 IN { LET env == [outcome |-> outcome, clash |-> c, dup |-> d,
                                  order |-> q]
                      IN [file |-> StandardizeWith(first, file, env),
                          completed |-> StandardizeCompletes(first, env)] :
                        d \in {"raise", "suffix"}, q \in SecondPassOrders(first, outcome) } :
                 c \in {"raise", "noop"} }

\* every file one run of the standardizer can leave under an outcome
StandardizeResults(name, file, outcome) ==
    { r.file : r \in StandardizeRuns(name, file, outcome) }

\* ------------------------------------------------------------------------
\* Feature configurations (_get_feature_configs)
\* ------------------------------------------------------------------------
\* the themes in the order the configuration lists them; the run iterates
\* the dictionary, whose order the interpreter fixes once and for all
feature_order ==
    <<"ST010Point", "ST011Polygon", "ST012Polyline", "ST013Point", "ST018Polyline",
      "ST018Polygon", "ST019Point", "ST021Polyline">>

Themes == SeqToSet(feature_order)

\* a layer name is a sequence of tokens: main.ST010Point is <<"main", ".", "ST010Point">>
SearchPatterns(fc_name) == << <<fc_name>>, <<"main", ".", fc_name>> >>

FieldConfig(old, new) == [old |-> old, new |-> new, sources |-> <<old>>]

FieldConfigFrom(old, new, sources) == [old |-> old, new |-> new, sources |-> sources]

DomainInfo(field, source, domain) == [field |-> field, source |-> source, domain |-> domain]

GeomorphologyFields(id_field, last_old, last_new) ==
    <<FieldConfig("Tipo", "Tipo_Gmrf"), FieldConfig("Tipologia", "Tipologia"),
      FieldConfig("Stato", "Stato"), FieldConfig(id_field, id_field),
      FieldConfig(last_old, last_new)>>

GeomorphologyDomains(tipo_domain) ==
    <<DomainInfo("Tipo_G_txt", "Tipo_Gmrf", tipo_domain),
      DomainInfo("Tipol_txt", "Tipologia", "d_tipologia.dbf"),
      DomainInfo("Stato_txt", "Stato", "d_stato.dbf")>>

feature_configs ==
    [t \in Themes |->
        CASE t = "ST010Point" ->
               [fields |-> GeomorphologyFields("Pun_Gmo", "Direzio", "Direzione"),
                domains |-> GeomorphologyDomains("d_10_tipo.dbf"),
                output_name |-> "geomorfologia_punti.shp",
                keep_fields |-> <<"Pun_Gmo", "Foglio", "Tipo_G_txt", "Stato_txt", "Tipol_txt",
                                  "Direzione">>,
                special_processing |-> "none"]
          [] t = "ST011Polygon" ->
               [fields |-> GeomorphologyFields("Pol_Gmo", "Direzio", "Direzione"),
                domains |-> GeomorphologyDomains("d_11_tipo.dbf"),
                output_name |-> "geomorfologia_poligoni.shp",
                keep_fields |-> <<"Pol_Gmo", "Foglio", "Tipo_G_txt", "Stato_txt", "Tipol_txt",
                                  "Direzione">>,
                special_processing |-> "none"]
          [] t = "ST012Polyline" ->
               [fields |-> GeomorphologyFields("Lin_Gmo", "Label", "Label"),
                domains |-> GeomorphologyDomains("d_12_tipo.dbf"),
                output_name |-> "geomorfologia_linee.shp",
                keep_fields |-> <<"Lin_Gmo", "Label", "Foglio", "Tipo_G_txt", "Stato_txt",
                                  "Tipol_txt">>,
                special_processing |-> "none"]
          [] t = "ST013Point" ->
               [fields |-> <<FieldConfigFrom("Num_Ris", "Num_Ris", <<"Num_Ris", "NUMERORIS">>),
                             FieldConfig("Label1", "Label1"), FieldConfig("Label2", "Label2"),
                             FieldConfig("Label3", "Label3"),
                             FieldConfigFrom("TIPO", "Tipo", <<"TIPO", "Tipo">>)>>,
                domains |-> <<DomainInfo("Tipo_txt", "Tipo", "d_13_tipo.dbf")>>,
                output_name |-> "risorse_prospezioni.shp",
                keep_fields |-> <<"Num_Ris", "Label1", "Label2", "Label3", "Foglio", "Tipo_txt">>,
                special_processing |-> "none"]
          [] t = "ST018Polyline" ->
               [fields |-> <<FieldConfig("Tipo", "Tipo_geo"), FieldConfig("Tipologia", "Tipologia"),
                             FieldConfig("Contorno", "Contorno"), FieldConfig("Affiora", "Affiora"),
                             FieldConfig("Direzio", "Direzione")>>,
                domains |-> <<DomainInfo("Tipo_g_txt", "Tipo_geo", "d_st018_line.dbf"),
                              DomainInfo("Tipol_txt", "Tipologia", "d_tipologia.dbf"),
                              DomainInfo("Cont_txt", "Contorno", "d_st018_contorno.dbf"),
                              DomainInfo("Affior_txt", "Affiora", "d_st018_affiora.dbf")>>,
                output_name |-> "geologia_linee.shp",
                keep_fields |-> <<"Foglio", "Affior_txt", "Tipo_g_txt", "Cont_txt", "Tipol_txt",
                                  "Direzione", "Fase_txt">>,
                special_processing |-> "geology_lines"]
          [] t = "ST018Polygon" ->
               [fields |-> <<FieldConfig("UQ_CAR", "Tipo_UQ"), FieldConfig("UQ_CAR", "Stato_UQ"),
                             FieldConfig("UC_LEGE", "ETA_super"), FieldConfig("UC_LEGE", "ETA_infer"),
                             FieldConfig("UC_LEGE", "tipo_ug"), FieldConfig("ID_TESS", "Tessitura"),
                             FieldConfig("SOMMERSO", "Sommerso_"), FieldConfig("UC_LEGE", "Sigla1"),
                             FieldConfig("UC_LEGE", "Sigla_ug"), FieldConfig("UC_LEGE", "Nome"),
                             FieldConfig("UC_LEGE", "Legenda"), FieldConfig("Pol_Uc", "Pol_Uc"),
                             FieldConfig("Uc_Lege", "Uc_Lege"), FieldConfig("Direzio", "Direzione")>>,
                domains |-> <<>>,
                output_name |-> "geologia_poligoni.shp",
                keep_fields |-> <<"Pol_Uc", "Uc_Lege", "Foglio", "Direzione", "Tipo_UQ", "Stato_UQ",
                                  "ETA_super", "ETA_infer", "tipo_ug", "Tessitura", "Sigla1",
                                  "Sigla_ug", "Nome", "Legenda", "Sommerso_">>,
                special_processing |-> "geology_polygons"]
          [] t = "ST019Point" ->
               [fields |-> <<FieldConfig("Tipo", "Tipo_geo"), FieldConfig("Tipologia", "Tipologia"),
                             FieldConfig("Fase", "Fase"), FieldConfig("Verso", "Verso"),
                             FieldConfig("Asimmetria", "Asimmetria"), FieldConfig("Num_Oss", "Num_Oss"),
                             FieldConfig("Quota", "Quota"), FieldConfig("Inclina", "Inclinaz"),
                             FieldConfig("Immersio", "Immersione"), FieldConfig("Direzio", "Direzione")>>,
                domains |-> <<DomainInfo("Tipo_g_txt", "Tipo_geo", "d_19_tipo.dbf"),
                              DomainInfo("Tipol_txt", "Tipologia", "d_tipologia.dbf"),
                              DomainInfo("Fase_txt", "Fase", "d_fase.dbf"),
                              DomainInfo("Verso_txt", "Verso", "d_verso.dbf"),
                              DomainInfo("Asimm_txt", "Asimmetria", "d_asimmetria.dbf")>>,
                output_name |-> "geologia_punti.shp",
                keep_fields |-> <<"Num_Oss", "Quota", "Foglio", "Tipo_g_txt", "Inclinaz", "Asimm_txt",
                                  "Fase_txt", "Immersione", "Verso_txt", "Direzione", "Tipol_txt">>,
                special_processing |-> "none"]
          [] OTHER ->
               [fields |-> <<FieldConfig("Tipo", "Tipo_geo"), FieldConfig("Tipologia", "Tipologia"),
                             FieldConfig("Fase", "Fase"), FieldConfig("Direzio", "Direzione")>>,
                domains |-> <<DomainInfo("Tipo_g_txt", "Tipo_geo", "d_st021.dbf"),
                              DomainInfo("Tipol_txt", "Tipologia", "d_tipologia.dbf"),
                              DomainInfo("Fase_txt", "Fase", "d_fase.dbf")>>,
                output_name |-> "geologia_linee_pieghe.shp",
                keep_fields |-> <<"Foglio", "Fase_txt", "Affior_txt", "Tipo_g_txt", "Cont_txt",
                                  "Tipol_txt", "Direzione">>,
                special_processing |-> "geology_lines_pieghe"] ]

\* ------------------------------------------------------------------------
\* Layer lookup (find_layer_by_pattern)
\* ------------------------------------------------------------------------
\* token.lower() for the tokens that occur in more than one case; every
\* other token stands for its own lower case
Lower(token) ==
    CASE token = "ST010POINT" -> "ST010Point"
      [] token = "MAIN" -> "main"
      [] OTHER -> token

LowerName(name) == [i \in 1..Len(name) |-> Lower(name[i])]

\* needle in hay
Contains(hay, needle) ==
    \E off \in 0..(Len(hay) - Len(needle)) :
        SubSeq(hay, off + 1, off + Len(needle)) = needle

ExactMatches(available_layers, pattern) ==
    { l \in available_layers : LowerName(l) = LowerName(pattern) }

PartialMatches(available_layers, pattern) ==
    { l \in available_layers : Contains(LowerName(l), LowerName(pattern)) }

\* a lookup that stops at the exact matches
RECURSIVE FindLayerByPattern_ExactOnly(_, _, _)
FindLayerByPattern_ExactOnly(available_layers, patterns, i) ==
    IF i > Len(patterns) THEN {}
    ELSE IF ExactMatches(available_layers, patterns[i]) # {}
         THEN ExactMatches(available_layers, patterns[i])
    ELSE FindLayerByPattern_ExactOnly(available_layers, patterns, i + 1)

\* the layers find_layer_by_pattern can return from pattern i on, {} for
\* None.  Each pattern is tried exactly, then as a part of a name, before
\* the next pattern; the lookup dictionary keeps one layer per lowered name
\* and is scanned in its own order, so any of the matching layers can be
\* the one returned.
RECURSIVE FindLayerByPattern(_, _, _)
FindLayerByPattern(available_layers, patterns, i) ==
    IF i > Len(patterns) THEN {}
    ELSE IF ExactMatches(available_layers, patterns[i]) # {}
         THEN ExactMatches(available_layers, patterns[i])
    ELSE IF PartialMatches(available_layers, patterns[i]) # {}
         THEN PartialMatches(available_layers, patterns[i])
    ELSE FindLayerByPattern(available_layers, patterns, i + 1)

\* the first layer of the list, from position j on, whose lowered name holds
\* the lowered pattern; {} when there is none
RECURSIVE FirstLayerContaining(_, _, _)
FirstLayerContaining(layers, pattern, j) ==
    IF j > Len(layers) THEN {}
    ELSE IF Contains(LowerName(layers[j]), LowerName(pattern)) THEN {layers[j]}
    ELSE FirstLayerContaining(layers, pattern, j + 1)

\* find_layer_by_pattern of the geodatabase converter: for each pattern the
\* layers are scanned in their listing order and a layer is returned as soon
\* as it equals the pattern or holds it; tables are not scanned.  layers is
\* the scan order over the datasets, each layer under its returned name.
RECURSIVE FindLayerByPatternGdb(_, _, _)
FindLayerByPatternGdb(layers, patterns, i) ==
    IF i > Len(patterns) THEN {}
    ELSE IF FirstLayerContaining(layers, patterns[i], 1) # {}
         THEN FirstLayerContaining(layers, patterns[i], 1)
    ELSE FindLayerByPatternGdb(layers, patterns, i + 1)

\* first loop of find_layer: the first variant that is a layer name as written
RECURSIVE FirstVariantListed(_, _, _)
FirstVariantListed(layers, name_variants, i) ==
    IF i > Len(name_variants) THEN {}
    ELSE IF name_variants[i] \in SeqToSet(layers) THEN {name_variants[i]}
    ELSE FirstVariantListed(layers, name_variants, i + 1)

\* find_layer of the open-library pipeline: a variant listed as written,
\* else the first layer holding the first variant that any layer holds
FindLayer_OpenLibs(layers, name_variants) ==
    IF FirstVariantListed(layers, name_variants, 1) # {}
    THEN FirstVariantListed(layers, name_variants, 1)
    ELSE FindLayerByPatternGdb(layers, name_variants, 1)

\* ------------------------------------------------------------------------
\* Input validation (validate_inputs, get_foglio_from_geopackage)
\* ------------------------------------------------------------------------
\* the path is empty, names nothing, or does not end in .gpkg
InputPathError(path) == path \in {"empty", "missing", "not_gpkg"}

HasNonNull(values) == \E i \in 1..Len(values) : values[i].k # "none"

FirstNonNull(values) ==
    values[CHOOSE i \in 1..Len(values) :
              values[i].k # "none" /\ \A j \in 1..(i - 1) : values[j].k = "none"]

\* the layers whose FoglioGeologico column yields a value to the scan
YieldingLayers(g) ==
    { l \in g.layers : g.sheet[l].kind = "column" /\ HasNonNull(g.sheet[l].values) }

\* the sheet ids the scan can return: the first non-null value of the first
\* yielding layer, and the list of layers comes from a set
FoglioCandidates(g) ==
    { Strip(PyStr(FirstNonNull(g.sheet[l].values))) : l \in YieldingLayers(g) }

\* a sheet id validate_inputs accepts as extracted but empty
FoglioIsEmpty_Never(foglio) == FALSE

\* not self.foglio or not self.foglio.strip()
FoglioIsEmpty(foglio) == foglio = <<>> \/ Strip(foglio) = <<>>

\* ------------------------------------------------------------------------
\* Steps 2 and 3 of a theme: fields, domains, special processing, Foglio
\* ------------------------------------------------------------------------
FieldNameSet(fields) == SeqToSet(FieldNames(fields))

\* the name the dictionary {f.name.upper(): f.name} gives for an upper name
NameOfUpper(fields, upper) ==
    fields[CHOOSE i \in 1..Len(fields) :
              Upper(fields[i].name) = upper
              /\ \A j \in (i + 1)..Len(fields) : Upper(fields[j].name) # upper].name

\* AddField unless the file has the name in some case
AddIfMissing(fields, name, type) ==
    IF Upper(name) \in UpperSet(FieldNameSet(fields)) THEN fields
    ELSE Append(fields, FieldWith(name, type, "empty"))

\* what the column of a field holds
ContentOf(fields, name) ==
    fields[CHOOSE i \in 1..Len(fields) : Upper(fields[i].name) = Upper(name)].content

\* every row of a column is written: by CalculateField or an update cursor
Fill(fields, name, content) ==
    [i \in 1..Len(fields) |->
        IF Upper(fields[i].name) = Upper(name) THEN [fields[i] EXCEPT !.content = content]
        ELSE fields[i]]

\* the first source of a field configuration the file has, "" for none
RECURSIVE FoundSource(_, _, _)
FoundSource(sources, i, existing) ==
    IF i > Len(sources) THEN ""
    ELSE IF Upper(sources[i]) \in UpperSet(FieldNameSet(existing))
         THEN NameOfUpper(existing, Upper(sources[i]))
    ELSE FoundSource(sources, i + 1, existing)

\* a mapping that makes an empty target when the file has no source
ProcessFieldMapping_Synthesize(fields, config, existing) ==
    LET found_source == FoundSource(config.sources, 1, existing)
    IN IF found_source = ""
       THEN [found |-> "", ok |-> FALSE,
             fields |-> AddIfMissing(fields, config.new, "String")]
       ELSE IF Upper(config.new) = Upper(found_source)
       THEN [found |-> found_source, ok |-> TRUE, fields |-> fields]
       ELSE IF Upper(config.new) \in UpperSet(FieldNameSet(fields))
       THEN [found |-> found_source, ok |-> TRUE, fields |-> fields]
       ELSE [found |-> found_source, ok |-> TRUE,
             fields |-> Fill(AddIfMissing(fields, config.new,
                                          FieldTypeOf(existing, found_source)),
                             config.new, ContentOf(fields, found_source))]

\* process_field_mapping for one configuration: the source it found, what
\* it returns and the fields it leaves; existing is the field list its
\* caller read
ProcessFieldMapping(fields, config, existing) ==
    LET found_source == FoundSource(config.sources, 1, existing)
    IN IF found_source = "" THEN [found |-> "", ok |-> FALSE, fields |-> fields]
       ELSE IF Upper(config.new) = Upper(found_source)
       THEN [found |-> found_source, ok |-> TRUE, fields |-> fields]
       ELSE IF Upper(config.new) \in UpperSet(FieldNameSet(fields))
       THEN [found |-> found_source, ok |-> TRUE, fields |-> fields]
       ELSE [found |-> found_source, ok |-> TRUE,
             fields |-> Fill(AddIfMissing(fields, config.new,
                                          FieldTypeOf(existing, found_source)),
                             config.new, ContentOf(fields, found_source))]

\* process_field_mapping for the configurations from i on; existing is the
\* field list read once before the loop
RECURSIVE ProcessFieldMappings(_, _, _, _)
ProcessFieldMappings(fields, configs, i, existing) ==
    IF i > Len(configs) THEN fields
    ELSE LET next == ProcessFieldMapping(fields, configs[i], existing).fields
         IN IF Len(next) = Len(fields)
            THEN ProcessFieldMappings(fields, configs, i + 1, existing)
            ELSE ProcessFieldMappings(next, configs, i + 1, existing)

\* apply_domain_mapping for the domains from i on; loaded holds the domain
\* tables whose code map is not empty
RECURSIVE ApplyDomainMappings(_, _, _, _)
ApplyDomainMappings(fields, domains, i, loaded) ==
    IF i > Len(domains) THEN fields
    ELSE LET next == IF domains[i].domain \in loaded
                     THEN Fill(AddIfMissing(fields, domains[i].field, "String"),
                               domains[i].field, "resolved")
                     ELSE fields
         IN IF next = fields
            THEN ApplyDomainMappings(fields, domains, i + 1, loaded)
            ELSE ApplyDomainMappings(next, domains, i + 1, loaded)

\* _process_standard_fields_and_domains
ProcessStandardFieldsAndDomains(fields, config, domini_exists, loaded) ==
    LET mapped == ProcessFieldMappings(fields, config.fields, 1, fields)
    IN IF domini_exists THEN ApplyDomainMappings(mapped, config.domains, 1, loaded)
       ELSE mapped

\* process_geology_lines_standard
ProcessGeologyLinesStandard(fields) ==
    Fill(AddIfMissing(fields, "Fase_txt", "String"), "Fase_txt", "literal")

\* process_geology_lines_pieghe
ProcessGeologyLinesPieghe(fields) ==
    Fill(Fill(AddIfMissing(AddIfMissing(fields, "Affior_txt", "String"), "Cont_txt", "String"),
              "Affior_txt", "literal"),
         "Cont_txt", "literal")

\* _add_foglio_field
AddFoglioField(fields) == Fill(AddIfMissing(fields, "Foglio", "String"), "Foglio", "sheet")

\* ------------------------------------------------------------------------
\* Geology polygons (process_geology_polygons_optimized)
\* ------------------------------------------------------------------------
AuxiliaryTables ==
    { <<"main", ".", "T0180801000">>, <<"main", ".", "T0180802000">>,
      <<"main", ".", "T0180803000">> }

MissingAuxiliaryTables(available_layers) == AuxiliaryTables \ available_layers

GeologyFieldsToAdd ==
    <<"Tipo_UQ", "TempTIPO", "Stato_UQ", "TempSTATO", "ETA_super", "TMP_super",
      "ETA_infer", "TMP_infer", "tipo_ug", "Temp_UnGeo", "Tessitura", "TempTESS",
      "Sommerso_", "Sigla1", "Sigla_ug", "Nome", "Legenda">>

RECURSIVE AddFields(_, _, _)
AddFields(fields, names, i) ==
    IF i > Len(names) THEN fields
    ELSE LET added == AddIfMissing(fields, names[i], "String")
         IN IF Len(added) = Len(fields) THEN AddFields(fields, names, i + 1)
            ELSE AddFields(added, names, i + 1)

\* _add_geology_fields
AddGeologyFields(fields) == AddFields(fields, GeologyFieldsToAdd, 1)

Yes == <<"S", "I">>

No == <<"N", "O">>

\* a value equal to one of the listed values: a number equals the number of
\* the same value, a text the same text
EqualsOneOf(v, listed) == KeyOf(v) \in { KeyOf(w) : w \in listed }

\* the value the cursor of process_sommerso_field_optimized writes to
\* Sommerso_ for one value of SOMMERSO
SommersoValue(sommerso_val) ==
    IF EqualsOneOf(sommerso_val, {PyInt(1), PyText(<<"1">>), PyText(<<"1", ".", "0">>)}) THEN Yes
    ELSE IF EqualsOneOf(sommerso_val, {PyInt(2), PyText(<<"2">>), PyText(<<"2", ".", "0">>)}) THEN No
    ELSE <<>>

\* the same cursor in the geodatabase converter: the text of the value,
\* stripped, is compared with a longer list
SommersoValueGdb(sommerso_val) ==
    IF sommerso_val.k = "none" THEN <<>>
    ELSE LET str_val == Strip(PyStr(sommerso_val))
         IN IF str_val \in { <<"1">>, <<"1", ".", "0">>, <<"S", "I">>, <<"s", "i">>, <<"S">>, <<"s">> }
            THEN Yes
            ELSE IF str_val \in { <<"2">>, <<"2", ".", "0">>, <<"N", "O">>, <<"n", "o">>, <<"N">>, <<"n">> }
                 THEN No
                 ELSE <<>>

\* _som of the open-library pipeline
SommersoValue_OpenLibs(v) ==
    IF PyStr(v) \in { <<"1">>, <<"1", ".", "0">> } \/ EqualsOneOf(v, {PyInt(1)}) THEN Yes
    ELSE IF PyStr(v) \in { <<"2">>, <<"2", ".", "0">> } \/ EqualsOneOf(v, {PyInt(2)}) THEN No
    ELSE <<>>

\* process_sommerso_field_optimized: Sommerso_ exists after it, and holds
\* the flag when the file has a SOMMERSO field
ProcessSommersoField(fields) ==
    IF \E n \in FieldNameSet(fields) : Upper(n) = "SOMMERSO"
    THEN Fill(AddIfMissing(fields, "Sommerso_", "String"), "Sommerso_", "flag")
    ELSE AddIfMissing(fields, "Sommerso_", "String")

\* the domain table each vocabulary of the polygon theme is resolved through
geology_domain_files ==
    [Tipo_UQ |-> "d_1000_tipo.dbf", Stato_UQ |-> "d_stato.dbf",
     ETA_super |-> "d_t2000_eta.dbf", ETA_infer |-> "d_t2000_eta.dbf",
     tipo_ug |-> "d_2000_SiglaTipo.dbf", Tessitura |-> "d_t3000.dbf"]

\* the fields the auxiliary tables are copied to as they are
JoinedFields ==
    <<"TempTIPO", "TempSTATO", "TMP_super", "TMP_infer", "Temp_UnGeo", "TempTESS",
      "Sigla1", "Sigla_ug", "Nome", "Legenda">>

RECURSIVE FillAll(_, _, _, _)
FillAll(fields, names, i, content) ==
    IF i > Len(names) THEN fields
    ELSE LET next == Fill(fields, names[i], content)
         IN IF next = fields THEN FillAll(fields, names, i + 1, content)
            ELSE FillAll(next, names, i + 1, content)

\* a batch that falls back on the raw code when the code map has no entry
ApplyGeologyMappingsBatch_CodeFallback(fields, loaded) ==
    LET joined == FillAll(fields, JoinedFields, 1, "joined")
    IN [i \in 1..Len(joined) |->
          IF joined[i].name \in DOMAIN geology_domain_files
          THEN [joined[i] EXCEPT !.content =
                   IF geology_domain_files[joined[i].name] \in loaded THEN "resolved"
                   ELSE "joined"]
          ELSE joined[i]]

\* _apply_geology_mappings_batch: the three cursors write every row; a
\* vocabulary whose code map is empty gets "" from code_map.get
ApplyGeologyMappingsBatch(fields, loaded) ==
    LET joined == FillAll(fields, JoinedFields, 1, "joined")
    IN [i \in 1..Len(joined) |->
          IF joined[i].name \in DOMAIN geology_domain_files
          THEN [joined[i] EXCEPT !.content =
                   IF geology_domain_files[joined[i].name] \in loaded THEN "resolved"
                   ELSE "empty"]
          ELSE joined[i]]

temp_fields ==
    {"TIPO", "TIPOLOGIA", "ID_LIMITE", "ID_ELEST", "CONTORNO", "AFFIORA", "PUN_GMO",
     "STATO", "ST018_", "ST018_ID", "UQ_CAR", "ID_TESS", "ID_AMB", "SOMMERSO",
     "TempTESS", "TempTIPO", "TempSTATO", "TMP_super", "TMP_infer", "Temp_UnGeo"}

\* _cleanup_geology_fields
CleanupGeologyFields(fields) == SelectSeq(fields, LAMBDA f : f.name \notin temp_fields)

\* handle_direzione_field_for_geology_polygons: the field found under the
\* key DIREZIO or DIREZIONE (whichever the dictionary yields first) is
\* copied to Direzione, which is added when missing, and then deleted
HandleDirezioneField(fields) ==
    LET found == { n \in FieldNameSet(fields) : Upper(n) \in {"Direzio", "Direzione"} }
    IN IF found = {} THEN {fields}
       ELSE { SelectSeq(Fill(AddIfMissing(fields, "Direzione", FieldTypeOf(fields, d)),
                             "Direzione", ContentOf(fields, d)),
                        LAMBDA f : f.name # d) : d \in found }

\* handle_direzione_field_for_geology_polygons of the converter for ArcGIS
\* Pro: its dictionary keeps the order of the listing, so the field taken as
\* the legacy one is the first of Direzio and Direzione in the file
HandleDirezioneFieldPro(fields) ==
    LET found == { i \in 1..Len(fields) : fields[i].name \in {"Direzio", "Direzione"} }
    IN IF found = {} THEN fields
       ELSE LET d == fields[CHOOSE i \in found : \A j \in found : i <= j].name
            IN SelectSeq(Fill(AddIfMissing(fields, "Direzione", FieldTypeOf(fields, d)),
                              "Direzione", ContentOf(fields, d)),
                         LAMBDA f : f.name # d)

\* handle_direzione_field_for_geology_polygons_fixed of the geodatabase
\* converter
HandleDirezioneFieldFixed(fields) ==
    LET direzio == "Direzio" \in FieldNameSet(fields)
        direzione == "Direzione" \in FieldNameSet(fields)
    IN IF direzione /\ ~direzio THEN fields
       ELSE IF direzio /\ direzione THEN SelectSeq(fields, LAMBDA f : f.name # "Direzio")
       ELSE IF direzio
       THEN SelectSeq(Fill(AddIfMissing(fields, "Direzione",
                                        IF FieldTypeOf(fields, "Direzio") = "String"
                                        THEN "String" ELSE "Double"),
                           "Direzione", ContentOf(fields, "Direzio")),
                      LAMBDA f : f.name # "Direzio")
       ELSE AddIfMissing(fields, "Direzione", "Double")

\* the field lists the polygon processing can leave
ProcessGeologyPolygons(fields, loaded) ==
    HandleDirezioneField(CleanupGeologyFields(
        ApplyGeologyMappingsBatch(ProcessSommersoField(AddGeologyFields(fields)), loaded)))

\* step 2 of process_feature_class_optimized: whether it raises and the
\* field lists it can leave
ProcessFieldsAndDomains(fc_name, fields, available_layers, domini_exists, loaded) ==
    LET config == feature_configs[fc_name]
        standard == ProcessStandardFieldsAndDomains(fields, config, domini_exists, loaded)
    IN CASE config.special_processing = "geology_polygons" ->
              IF MissingAuxiliaryTables(available_layers) # {}
              THEN [raised |-> TRUE, results |-> {fields}]
              ELSE [raised |-> FALSE, results |-> ProcessGeologyPolygons(fields, loaded)]
         [] config.special_processing = "geology_lines" ->
              [raised |-> FALSE, results |-> {ProcessGeologyLinesStandard(standard)}]
         [] config.special_processing = "geology_lines_pieghe" ->
              [raised |-> FALSE, results |-> {ProcessGeologyLinesPieghe(standard)}]
         [] OTHER -> [raised |-> FALSE, results |-> {standard}]

\* the calls step 2 makes for a theme, in order: the rename rules, the
\* domain rules, the special processing of the tag
FieldCalls(config, domini_exists) ==
    LET standard == <<"mapper">> \o (IF domini_exists THEN <<"domains">> ELSE <<>>)
    IN CASE config.special_processing = "geology_polygons" -> <<"special">>
         [] config.special_processing \in {"geology_lines", "geology_lines_pieghe"} ->
              standard \o <<"special">>
         [] OTHER -> standard

\* ------------------------------------------------------------------------
\* The theme loop of process_all_optimized
\* ------------------------------------------------------------------------
\* a loop that leaves for the merge after its first theme
NextTheme_LeaveEarly(r) ==
    [r EXCEPT !.idx = @ + 1, !.step = "find", !.found = <<>>, !.pc = "combine"]

\* the loop moves to the next theme, or leaves for the merge after the last
NextTheme(r) ==
    [r EXCEPT !.idx = @ + 1, !.step = "find", !.found = <<>>,
              !.pc = IF r.idx = Len(feature_order) THEN "combine" ELSE "loop"]

\* a skip that is not counted
LayerNotFound_NoCount(r) == NextTheme(r)

\* no layer found: warning, failed_count += 1, continue
LayerNotFound(r) == NextTheme([r EXCEPT !.failed_count = @ + 1])

\* a handler that lets the exception leave the loop
ThemeFailed_Reraise(r) == [r EXCEPT !.pc = "aborted", !.error = "theme"]

\* process_feature_class_optimized returned False, or an exception reached
\* the handler of the loop: failed_count += 1 and the loop goes on
ThemeFailed(r) == NextTheme([r EXCEPT !.failed_count = @ + 1])

\* a success the loop does not count
ThemeProcessed_NoCount(r) == NextTheme(r)

\* process_feature_class_optimized returned True
ThemeProcessed(r) == NextTheme([r EXCEPT !.processed_count = @ + 1])

\* ------------------------------------------------------------------------
\* Merge of the pieghe output into the lines output
\* ------------------------------------------------------------------------
\* an append that replaces the rows of the destination
AppendRows_Overwrite(dest, k) == [dest EXCEPT !.rows = k]

\* Append_management with NO_TEST adding k rows of the source
AppendRows(dest, k) == [dest EXCEPT !.rows = @ + k]

\* a check that always passes
CountsMatch_Always(dest_count_before, source_count, dest_count_after) == TRUE

\* dest_count_after == dest_count_before + source_count
CountsMatch(dest_count_before, source_count, dest_count_after) ==
    dest_count_after = dest_count_before + source_count

\* ------------------------------------------------------------------------
\* State
\* ------------------------------------------------------------------------
VARIABLES
    dom,    \* domain registry: the table, the loaded code map, the last lookup
    cl,     \* cleanup: the file, the keep list, the result
    st,     \* standardizer: the file before and after each of two runs
    gpkg,   \* the input container: its path, its layers, their sheet column
    fs,     \* the folders of the run: scratch copy, output files, report
    run,    \* process_all_optimized: position, sheet id, the two counters
    tr,     \* history of the run: faults drawn, outcome of each theme, merge
    lk,     \* layer lookup: the catalog, the patterns, the layer returned
    som,    \* flag normalisation: the SOMMERSO column and the column written
    geo,    \* polygon theme: the auxiliary tables there are, whether it goes on
    reg,    \* cached registry: the source, the cache, the maps the loads returned
    fo      \* field operations: the fields of a file, the rule, the fields left

vars == <<dom, cl, st, gpkg, fs, run, tr, lk, som, geo, reg, fo>>

\* the variables of the functions checked on drawn arguments
calls == <<lk, som, geo, reg, fo>>

\* the variables of the run
pipeline == <<gpkg, fs, run, tr>>

\* ------------------------------------------------------------------------
\* Inputs drawn for the domain registry
\* ------------------------------------------------------------------------
CodeValues ==
    { PyNone, PyInt(1), PyInt(2), PyFloat(100), PyFloat(170), PyFloat(200),
      PyText(<<"1">>), PyText(<<" ", "1", " ">>), PyText(<<"1", ".", "0">>),
      PyText(<<"x">>) }

DescValues == { PyNone, PyText(<<"A">>), PyText(<<"B">>), PyText(<<" ", "A">>) }

ProbeValues ==
    CodeValues \cup { PyInt(3), PyText(<<"2">>), PyText(<<"2", ".", "0">>),
                      PyText(<<"1", ".", "7">>) }

Row(code, desc) == [code |-> code, desc |-> desc]

AllRows == { Row(c, d) : c \in CodeValues, d \in DescValues }

RowSeqs == UNION { [1..n -> AllRows] : n \in 0..MaxRows }

\* readable tables, and the three ways load_domain_mappings gives up
Table(exists, hasDesc, hasCode, rows, fault) ==
    [exists |-> exists, hasDesc |-> hasDesc, hasCode |-> hasCode, rows |-> rows,
     fault |-> fault]

\* a row every table can hold
PlainRow == Row(PyInt(1), PyText(<<"A">>))

\* readable tables, the three ways load_domain_mappings gives up, and the
\* tables the store fails to read
DomainTables ==
    { Table(TRUE, TRUE, TRUE, r, "none") : r \in RowSeqs }
      \cup { Table(FALSE, FALSE, FALSE, <<>>, "none"),
             Table(TRUE, FALSE, TRUE, <<PlainRow>>, "none"),
             Table(TRUE, TRUE, FALSE, <<PlainRow>>, "none") }
      \cup { Table(e, d, c, <<PlainRow>>, f) :
               e \in BOOLEAN, d \in BOOLEAN, c \in BOOLEAN, f \in {"fields", "cursor"} }

DomIdle == [phase |-> "idle", table |-> Table(FALSE, FALSE, FALSE, <<>>, "none"),
            map |-> EmptyMap, raised |-> FALSE, probe |-> PyNone, value |-> <<>>,
            by |-> "none"]

\* the codes a polygon joins from an auxiliary table; the empty text stands
\* for a polygon without a row there
JoinedCodes == { <<>>, <<"1">>, <<"x">>, <<"9">> }

\* the sheet numbers a run reads from the container (never empty:
\* validate_inputs stops the run otherwise)
SheetNumbers == { <<"1">>, <<"x">>, <<"9">> }

\* ------------------------------------------------------------------------
\* Inputs drawn for the cleanup
\* ------------------------------------------------------------------------
\* most data fields of a drawn file
MaxFields == 2

CleanupNames == {"Foglio", "TempX", "Label", "Tipologia", "Quota"}

DataLists ==
    { q \in UNION { [1..n -> CleanupNames] : n \in 0..MaxFields } :
        \A i, j \in 1..Len(q) : i # j => q[i] # q[j] }

TypeOfName(name) == IF name = "Quota" THEN "Double" ELSE "String"

FileFields(q) == SystemFieldList \o [i \in 1..Len(q) |-> Field(q[i], TypeOfName(q[i]))]

KeepLists == { <<>>, <<"Foglio">>, <<"Label", "Foglio">>, <<"Num_Ris">>, <<"Quota">> }

ClIdle == [phase |-> "idle", fields |-> <<>>, keep |-> <<>>, undeletable |-> {},
           raised |-> FALSE, out |-> <<>>, persisted |-> FALSE]

\* ------------------------------------------------------------------------
\* Inputs drawn for the standardizer
\* ------------------------------------------------------------------------
\* most data fields of a file drawn for the standardizer
MaxStdFields == 3

\* the names a drawn file takes its fields from: the first canonical field
\* of its theme, one old name with the canonical name it maps to, two names
\* the theme does not know, and the sheet field in upper case
StdDrawNames(name) ==
    LET config == field_standards[name]
        old == CHOOSE o \in DOMAIN config.field_mappings : TRUE
    IN {config.field_order[3], old, config.field_mappings[old], "Note", "Anno", "FOGLIO"}

StdFieldLists(name) ==
    { q \in UNION { [1..n -> StdDrawNames(name)] : n \in 0..MaxStdFields } :
        \A i, j \in 1..Len(q) : i # j => Upper(q[i]) # Upper(q[j]) }

StIdle == [phase |-> "idle", name |-> "", before |-> NoFile, first |-> NoFile,
           second |-> NoFile, outcome1 |-> "none", outcome2 |-> "none",
           completed1 |-> FALSE, completed2 |-> FALSE]

\* ------------------------------------------------------------------------
\* Inputs drawn for a run
\* ------------------------------------------------------------------------
\* most store operations that fail in one run
MaxFaults == 1

\* most features held by a layer of the container
MaxFeatures == 2

LayerOf(fc_name) == <<"main", ".", fc_name>>

FullCatalog == { LayerOf(t) : t \in Themes } \cup AuxiliaryTables

\* the complete container, one without two of the line layers, one without an
\* auxiliary table, one whose ST010Point layer is only found as a part of a
\* longer name or in another case, and an empty one
Catalogs ==
    { FullCatalog,
      FullCatalog \ {LayerOf("ST012Polyline"), LayerOf("ST021Polyline")},
      FullCatalog \ {<<"main", ".", "T0180802000">>},
      (FullCatalog \ {LayerOf("ST010Point")})
          \cup {<<"MAIN", ".", "ST010POINT">>, <<"main", ".", "ST010Point", "_old">>},
      {} }

Column(values) == [kind |-> "column", values |-> values]

NoColumn == [kind |-> "absent", values |-> <<>>]

UnreadableColumn == [kind |-> "unreadable", values |-> <<>>]

SheetId == PyText(<<"3", "4", "8">>)

Blank == PyText(<<" ">>)

SheetColumns ==
    { NoColumn, UnreadableColumn, Column(<<>>), Column(<<PyNone>>), Column(<<Blank>>),
      Column(<<Blank, SheetId>>), Column(<<PyNone, SheetId>>), Column(<<PyInt(348)>>) }

Gpkg(path, layers, sheet) == [path |-> path, layers |-> layers, sheet |-> sheet]

\* a container of two point layers
SmallCatalog == { LayerOf("ST013Point"), LayerOf("ST019Point") }

\* the containers drawn: the small catalog with every column in both its
\* layers, or with one blank layer and one filled; the other catalogs with
\* a filled column; the three bad paths
Containers ==
    { Gpkg("valid", SmallCatalog, [l \in SmallCatalog |-> c]) : c \in SheetColumns }
      \cup { Gpkg("valid", SmallCatalog,
                  [l \in SmallCatalog |-> IF l = LayerOf("ST013Point") THEN Column(<<Blank>>)
                                           ELSE Column(<<SheetId>>)]) }
      \cup { Gpkg("valid", c, [l \in c |-> Column(<<SheetId>>)]) : c \in Catalogs }
      \cup { Gpkg(p, FullCatalog, [l \in FullCatalog |-> Column(<<SheetId>>)]) :
               p \in {"empty", "missing", "not_gpkg"} }

\* the fields of a layer once converted to a shapefile (names cut to ten
\* characters)
LayerFieldNames(fc_name) ==
    CASE fc_name = "ST010Point" -> <<"Pun_Gmo", "Tipo", "Tipologia", "Stato", "Direzio", "FoglioGeol">>
      [] fc_name = "ST011Polygon" -> <<"Pol_Gmo", "Tipo", "Tipologia", "Stato", "Direzio", "FoglioGeol">>
      [] fc_name = "ST012Polyline" -> <<"Lin_Gmo", "Label", "Tipo", "Tipologia", "Stato", "FoglioGeol">>
      [] fc_name = "ST013Point" -> <<"Num_Ris", "Label1", "Label2", "Label3", "TIPO", "FoglioGeol">>
      [] fc_name = "ST018Polyline" -> <<"Tipo", "Tipologia", "Contorno", "Affiora", "Direzio", "FoglioGeol">>
      [] fc_name = "ST018Polygon" -> <<"Pol_Uc", "Uc_Lege", "UQ_CAR", "ID_TESS", "SOMMERSO", "Direzio",
                                       "FoglioGeol">>
      [] fc_name = "ST019Point" -> <<"Num_Oss", "Quota", "Tipo", "Tipologia", "Fase", "Verso",
                                     "Asimmetria", "Inclina", "Immersio", "Direzio", "FoglioGeol">>
      [] OTHER -> <<"Tipo", "Tipologia", "Fase", "Direzio", "FoglioGeol">>

TypeOfLayerField(name) ==
    IF name \in {"Quota", "Inclina", "Immersio", "Direzio"} THEN "Double"
    ELSE IF name \in {"Tipo", "TIPO", "Tipologia", "Stato", "Fase", "Verso", "Asimmetria",
                      "Contorno", "Affiora", "UQ_CAR", "ID_TESS", "SOMMERSO", "Num_Oss",
                      "Num_Ris"} THEN "Integer"
    ELSE "String"

\* the features of a layer: the pieghe layer holds one, every other layer
\* MaxFeatures
FeatureCount(fc_name) == IF fc_name = "ST021Polyline" THEN 1 ELSE MaxFeatures

\* step 1: the scratch copy of a layer
ConvertedLayer(fc_name) ==
    File(FeatureCount(fc_name),
         SystemFieldList \o [i \in 1..Len(LayerFieldNames(fc_name)) |->
                               Field(LayerFieldNames(fc_name)[i],
                                     TypeOfLayerField(LayerFieldNames(fc_name)[i]))])

\* the domain tables a theme loads
DomainNames(fc_name) ==
    IF fc_name = "ST018Polygon"
    THEN { geology_domain_files[f] : f \in DOMAIN geology_domain_files }
    ELSE { feature_configs[fc_name].domains[i].domain :
             i \in 1..Len(feature_configs[fc_name].domains) }

\* the domini folder of a run: no folder, every table, or every table but
\* d_tipologia.dbf and d_stato.dbf
DominiFolders == {"absent", "complete", "partial"}

\* the domain tables of a theme that load with a code map
LoadedDomains(domini, fc_name) ==
    CASE domini = "complete" -> DomainNames(fc_name)
      [] domini = "partial" -> DomainNames(fc_name) \ {"d_tipologia.dbf", "d_stato.dbf"}
      [] OTHER -> {}

NoOutputs == [f \in StandardFiles |-> NoFile]

\* an output folder left by an earlier run
StaleOutputs ==
    [NoOutputs EXCEPT !["geologia_linee.shp"] =
        File(1, SystemFieldList \o <<Field("Foglio", "String")>>)]

MergeIdle == [called |-> FALSE, ran |-> FALSE, checked |-> FALSE, before |-> 0,
              source |-> 0, appended |-> 0, after |-> 0, matched |-> FALSE,
              raised |-> FALSE]

GpkgIdle == Gpkg("idle", {}, <<>>)

FsIdle == [shape_dir |-> "absent", output_dir |-> "absent", domini |-> "absent",
           scratch |-> NoFile, outputs |-> NoOutputs, report |-> FALSE]

RunIdle == [pc |-> "idle", idx |-> 0, step |-> "none", foglio |-> <<>>, found |-> <<>>,
            processed_count |-> 0, failed_count |-> 0, error |-> "none"]

TrIdle == [faults |-> 0, result |-> [t \in Themes |-> "none"],
           attempts |-> [t \in Themes |-> 0], faulted |-> {}, written |-> {},
           merge |-> MergeIdle, calls |-> [t \in Themes |-> <<>>], stale |-> FALSE]

LkIdle == [phase |-> "idle", layers |-> <<>>, patterns |-> <<>>, by |-> "none", found |-> {}]

SomIdle == [phase |-> "idle", column |-> <<>>, by |-> "none", out |-> <<>>]

GeoIdle == [phase |-> "idle", tables |-> {}, by |-> "none", ok |-> FALSE, joined |-> {}]

\* no entry of the cache
NotCached == [held |-> FALSE, map |-> EmptyMap]

RegIdle == [phase |-> "idle", by |-> "none",
            source |-> Table(FALSE, FALSE, FALSE, <<>>, "none"), cache |-> NotCached,
            loads |-> 0, reads |-> 0, first |-> EmptyMap, last |-> EmptyMap]

FoIdle == [phase |-> "idle", fields |-> <<>>, rule |-> FieldConfig("", ""), op |-> "none",
           by |-> "none", found |-> "", ok |-> FALSE, out |-> <<>>]

CallsIdle ==
    lk = LkIdle /\ som = SomIdle /\ geo = GeoIdle /\ reg = RegIdle /\ fo = FoIdle

\* the variables of the three units checked on their own
units == <<dom, cl, st, calls>>

\* ------------------------------------------------------------------------
\* Domain registry: load a table, then look values up
\* ------------------------------------------------------------------------
InitDomain ==
    /\ dom \in { [DomIdle EXCEPT !.phase = "table", !.table = t] : t \in DomainTables }
    /\ cl = ClIdle
    /\ st = StIdle
    /\ gpkg = GpkgIdle /\ fs = FsIdle /\ run = RunIdle /\ tr = TrIdle
    /\ CallsIdle

DomainLoad ==
    /\ dom.phase = "table"
    /\ LET loaded == LoadOutcome(dom.table)
       IN dom' = [dom EXCEPT !.phase = IF loaded.raised THEN "raised" ELSE "loaded",
                             !.map = loaded.map, !.raised = loaded.raised]
    /\ UNCHANGED <<cl, st, pipeline, calls>>

\* one row of the update cursor of apply_domain_mapping
DomainApply ==
    /\ dom.phase = "loaded"
    /\ \E v \in ProbeValues :
         dom' = [dom EXCEPT !.phase = "applied", !.probe = v,
                            !.value = MappedValue(dom.map, v)]
    /\ UNCHANGED <<cl, st, pipeline, calls>>

\* one row of the T1000 cursor of _apply_geology_mappings_batch
GeologyGpkg ==
    /\ dom.phase = "loaded"
    /\ \E temp \in JoinedCodes :
         dom' = [dom EXCEPT !.phase = "joined", !.by = "gpkg", !.probe = PyText(temp),
                            !.value = GeologyValue(dom.map, temp)]
    /\ UNCHANGED <<cl, st, pipeline, calls>>

\* one row of the cursor of _apply_t1000_mappings_gdb_fixed, for its type
\* column or its state column
GeologyGdb ==
    /\ dom.phase = "loaded"
    /\ \E raw \in JoinedCodes, missing \in {NonClassificato, NonDefinito} :
         dom' = [dom EXCEPT !.phase = "joined", !.by = "gdb", !.probe = PyText(raw),
                            !.value = GeologyValueGdb(dom.map, raw, missing)]
    /\ UNCHANGED <<cl, st, pipeline, calls>>

\* _add_foglio_field of the geopackage converter, d_foglio.dbf being the
\* table drawn
FoglioGpkg ==
    /\ dom.phase = "loaded"
    /\ \E foglio \in SheetNumbers :
         dom' = [dom EXCEPT !.phase = "sheet", !.by = "gpkg", !.probe = PyText(foglio),
                            !.value = FoglioValue(dom.map, foglio)]
    /\ UNCHANGED <<cl, st, pipeline, calls>>

\* _add_foglio_field of the converter for ArcGIS Pro
FoglioPro ==
    /\ dom.phase = "loaded"
    /\ \E foglio \in SheetNumbers :
         dom' = [dom EXCEPT !.phase = "sheet", !.by = "pro", !.probe = PyText(foglio),
                            !.value = FoglioValuePro(dom.map, foglio)]
    /\ UNCHANGED <<cl, st, pipeline, calls>>

NextDomain ==
    DomainLoad \/ DomainApply \/ GeologyGpkg \/ GeologyGdb \/ FoglioGpkg \/ FoglioPro

SpecDomain == InitDomain /\ [][NextDomain]_vars

\* ------------------------------------------------------------------------
\* Cleanup: step 4 of a theme, followed by the save of step 5
\* ------------------------------------------------------------------------
InitCleanup ==
    /\ cl \in { [phase |-> "input", fields |-> FileFields(q), keep |-> k,
                 undeletable |-> u, raised |-> FALSE, out |-> <<>>,
                 persisted |-> FALSE] :
                 q \in DataLists, k \in KeepLists, u \in SUBSET {"TempX", "Label"} }
    /\ dom = DomIdle
    /\ st = StIdle
    /\ gpkg = GpkgIdle /\ fs = FsIdle /\ run = RunIdle /\ tr = TrIdle
    /\ CallsIdle

CleanupRun ==
    /\ cl.phase = "input"
    /\ LET r == CleanupOutputFields(cl.fields, cl.keep, cl.undeletable)
       IN cl' = [cl EXCEPT !.phase = "done", !.raised = r.raised, !.out = r.fields]
    /\ UNCHANGED <<dom, st, pipeline, calls>>

\* the save of step 5 is reached only when the cleanup returned
CleanupPersist ==
    /\ cl.phase = "done"
    /\ ~cl.raised
    /\ cl' = [cl EXCEPT !.phase = "saved", !.persisted = TRUE]
    /\ UNCHANGED <<dom, st, pipeline, calls>>

NextCleanup == CleanupRun \/ CleanupPersist

SpecCleanup == InitCleanup /\ [][NextCleanup]_vars

\* ------------------------------------------------------------------------
\* Standardizer: one file of an output theme, standardized twice
\* ------------------------------------------------------------------------
InitStd ==
    /\ st \in UNION { { [StIdle EXCEPT !.phase = "input", !.name = n,
                                       !.before = File(1, FileFields(q))] :
                          q \in StdFieldLists(n) } : n \in StandardFiles }
    /\ dom = DomIdle
    /\ cl = ClIdle
    /\ gpkg = GpkgIdle /\ fs = FsIdle /\ run = RunIdle /\ tr = TrIdle
    /\ CallsIdle

StandardizeFirst ==
    /\ st.phase = "input"
    /\ \E o \in StandardizeOutcomes :
         \E r \in StandardizeRuns(st.name, st.before, o) :
            st' = [st EXCEPT !.phase = "once", !.first = r.file, !.outcome1 = o,
                             !.completed1 = r.completed]
    /\ UNCHANGED <<dom, cl, pipeline, calls>>

StandardizeAgain ==
    /\ st.phase = "once"
    /\ \E o \in StandardizeOutcomes :
         \E r \in StandardizeRuns(st.name, st.first, o) :
            st' = [st EXCEPT !.phase = "twice", !.second = r.file, !.outcome2 = o,
                             !.completed2 = r.completed]
    /\ UNCHANGED <<dom, cl, pipeline, calls>>

NextStd == StandardizeFirst \/ StandardizeAgain

SpecStd == InitStd /\ [][NextStd]_vars

\* ------------------------------------------------------------------------
\* Layer lookup on a drawn catalog, by each converter
\* ------------------------------------------------------------------------
\* most layers in a drawn catalog
MaxLayers == 3

LayerNames ==
    { <<"main", ".", "ST010Point">>, <<"MAIN", ".", "ST010POINT">>,
      <<"main", ".", "ST010Point", "_old">>, <<"ST010Point">>,
      <<"main", ".", "ST018Polygon">>, <<"main", ".", "ST018Polyline">> }

PatternNames ==
    { <<"ST010Point">>, <<"main", ".", "ST010Point">>, <<"ST010POINT">>, <<"ST018Polygon">> }

\* the listings of a catalog: no layer twice
LayerLists ==
    { q \in UNION { [1..n -> LayerNames] : n \in 0..MaxLayers } :
        \A i, j \in 1..Len(q) : i # j => q[i] # q[j] }

PatternLists == UNION { [1..n -> PatternNames] : n \in 1..2 }

InitFind ==
    /\ lk \in { [LkIdle EXCEPT !.phase = "input", !.layers = l, !.patterns = p] :
                   l \in LayerLists, p \in PatternLists }
    /\ som = SomIdle /\ geo = GeoIdle /\ reg = RegIdle /\ fo = FoIdle
    /\ dom = DomIdle /\ cl = ClIdle /\ st = StIdle
    /\ gpkg = GpkgIdle /\ fs = FsIdle /\ run = RunIdle /\ tr = TrIdle

Returned(by, found) == [lk EXCEPT !.phase = "found", !.by = by, !.found = found]

\* the geopackage converter: the lookup dictionary is scanned in its own
\* order, so any of the layers the pattern selects can be the one returned
FindGpkg ==
    /\ lk.phase = "input"
    /\ LET found == FindLayerByPattern(SeqToSet(lk.layers), lk.patterns, 1)
       IN IF found = {} THEN lk' = Returned("gpkg", {})
          ELSE \E l \in found : lk' = Returned("gpkg", {l})
    /\ UNCHANGED <<dom, cl, st, pipeline, som, geo, reg, fo>>

FindGdb ==
    /\ lk.phase = "input"
    /\ lk' = Returned("gdb", FindLayerByPatternGdb(lk.layers, lk.patterns, 1))
    /\ UNCHANGED <<dom, cl, st, pipeline, som, geo, reg, fo>>

FindOpenLibs ==
    /\ lk.phase = "input"
    /\ lk' = Returned("openlibs", FindLayer_OpenLibs(lk.layers, lk.patterns))
    /\ UNCHANGED <<dom, cl, st, pipeline, som, geo, reg, fo>>

NextFind == FindGpkg \/ FindGdb \/ FindOpenLibs

SpecFind == InitFind /\ [][NextFind]_vars

\* ------------------------------------------------------------------------
\* Flag normalisation on a drawn SOMMERSO column, by each converter
\* ------------------------------------------------------------------------
SommersoValues ==
    { PyNone, PyInt(1), PyInt(2), PyInt(3), PyInt(0), PyFloat(100), PyFloat(200),
      PyFloat(170), PyText(<<"1">>), PyText(<<"1", ".", "0">>), PyText(<<"2">>),
      PyText(<<"2", ".", "0">>), PyText(<<"x">>), PyText(<<"3">>), PyText(<<>>),
      PyText(<<" ", "1">>), PyText(<<"2", " ">>), PyText(<<"S", "I">>), PyText(<<"s">>),
      PyText(<<"N", "O">>), PyText(<<"n">>) }

SommersoColumns == UNION { [1..n -> SommersoValues] : n \in 1..MaxRows }

InitSommerso ==
    /\ som \in { [SomIdle EXCEPT !.phase = "input", !.column = c] : c \in SommersoColumns }
    /\ lk = LkIdle /\ geo = GeoIdle /\ reg = RegIdle /\ fo = FoIdle
    /\ dom = DomIdle /\ cl = ClIdle /\ st = StIdle
    /\ gpkg = GpkgIdle /\ fs = FsIdle /\ run = RunIdle /\ tr = TrIdle

SommersoGpkg ==
    /\ som.phase = "input"
    /\ som' = [som EXCEPT !.phase = "written", !.by = "gpkg",
                          !.out = [i \in 1..Len(som.column) |-> SommersoValue(som.column[i])]]
    /\ UNCHANGED <<dom, cl, st, pipeline, lk, geo, reg, fo>>

SommersoGdb ==
    /\ som.phase = "input"
    /\ som' = [som EXCEPT !.phase = "written", !.by = "gdb",
                          !.out = [i \in 1..Len(som.column) |-> SommersoValueGdb(som.column[i])]]
    /\ UNCHANGED <<dom, cl, st, pipeline, lk, geo, reg, fo>>

SommersoOpenLibs ==
    /\ som.phase = "input"
    /\ som' = [som EXCEPT !.phase = "written", !.by = "openlibs",
                          !.out = [i \in 1..Len(som.column) |-> SommersoValue_OpenLibs(som.column[i])]]
    /\ UNCHANGED <<dom, cl, st, pipeline, lk, geo, reg, fo>>

NextSommerso == SommersoGpkg \/ SommersoGdb \/ SommersoOpenLibs

SpecSommerso == InitSommerso /\ [][NextSommerso]_vars

\* ------------------------------------------------------------------------
\* The polygon theme on a drawn set of auxiliary tables
\* ------------------------------------------------------------------------
\* process_geology_polygons_optimized goes on when no table is missing
GeologyPolygonsGoOn(available_layers) == MissingAuxiliaryTables(available_layers) = {}

\* process_geology_polygons_final_fix goes on when the discovery found a table
GeologyPolygonsGoOnGdb(available_layers) == AuxiliaryTables \cap available_layers # {}

\* layers of the container next to the auxiliary tables
OtherLayers == { LayerOf("ST018Polygon"), LayerOf("ST010Point"), LayerOf("ST018Polyline") }

InitPolygons ==
    /\ geo \in { [GeoIdle EXCEPT !.phase = "layer", !.tables = a \cup o] :
                  a \in SUBSET AuxiliaryTables, o \in SUBSET OtherLayers }
    /\ dom = DomIdle /\ cl = ClIdle /\ st = StIdle
    /\ gpkg = GpkgIdle /\ fs = FsIdle /\ run = RunIdle /\ tr = TrIdle
    /\ lk = LkIdle /\ som = SomIdle /\ reg = RegIdle /\ fo = FoIdle

\* the geopackage converter: the three joins are made, or the theme raises
PolygonsGpkg ==
    /\ geo.phase = "layer"
    /\ geo' = [geo EXCEPT !.phase = "done", !.by = "gpkg",
                          !.ok = GeologyPolygonsGoOn(geo.tables),
                          !.joined = IF GeologyPolygonsGoOn(geo.tables)
                                     THEN AuxiliaryTables ELSE {}]
    /\ UNCHANGED <<dom, cl, st, pipeline, lk, som, reg, fo>>

\* the geodatabase converter: the joins of the tables found are made
PolygonsGdb ==
    /\ geo.phase = "layer"
    /\ geo' = [geo EXCEPT !.phase = "done", !.by = "gdb",
                          !.ok = GeologyPolygonsGoOnGdb(geo.tables),
                          !.joined = AuxiliaryTables \cap geo.tables]
    /\ UNCHANGED <<dom, cl, st, pipeline, lk, som, reg, fo>>

NextPolygons == PolygonsGpkg \/ PolygonsGdb

SpecPolygons == InitPolygons /\ [][NextPolygons]_vars

\* ------------------------------------------------------------------------
\* The domain loader called again and again on a source that may change
\* ------------------------------------------------------------------------
\* most loads of one key in a run
MaxLoads == 3

Cached(code_map) == [held |-> TRUE, map |-> code_map]

\* load_domain_mappings with the cache of the converter for ArcGIS Pro: the
\* map returned, the cache left and whether the source was touched
LoadCached(cache, table) ==
    IF cache.held THEN [map |-> cache.map, cache |-> cache, read |-> FALSE]
    ELSE IF ~table.exists THEN [map |-> EmptyMap, cache |-> cache, read |-> TRUE]
    ELSE IF ReadFails(table)
         THEN [map |-> EmptyMap, cache |-> Cached(EmptyMap), read |-> TRUE]
    ELSE IF ~table.hasDesc \/ ~table.hasCode
         THEN [map |-> EmptyMap, cache |-> cache, read |-> TRUE]
    ELSE [map |-> LoadRows(EmptyMap, table.rows),
          cache |-> Cached(LoadRows(EmptyMap, table.rows)), read |-> TRUE]

\* load_domain_mappings of the geopackage converter, which keeps no entry
LoadUncached(cache, table) ==
    [map |-> LoadOutcome(table).map, cache |-> cache, read |-> TRUE]

OtherRow == Row(PyInt(2), PyText(<<"B">>))

\* the states of one domain file: missing, without rows, with a row, with
\* another row, without a description field, unreadable
RegistrySources ==
    { Table(FALSE, FALSE, FALSE, <<>>, "none"), Table(TRUE, TRUE, TRUE, <<>>, "none"),
      Table(TRUE, TRUE, TRUE, <<PlainRow>>, "none"),
      Table(TRUE, TRUE, TRUE, <<OtherRow>>, "none"),
      Table(TRUE, FALSE, TRUE, <<PlainRow>>, "none"),
      Table(TRUE, TRUE, TRUE, <<PlainRow>>, "cursor") }

InitRegistry ==
    /\ reg \in { [RegIdle EXCEPT !.phase = "run", !.by = b, !.source = t] :
                  b \in {"pro", "gpkg"}, t \in RegistrySources }
    /\ dom = DomIdle /\ cl = ClIdle /\ st = StIdle
    /\ gpkg = GpkgIdle /\ fs = FsIdle /\ run = RunIdle /\ tr = TrIdle
    /\ lk = LkIdle /\ som = SomIdle /\ geo = GeoIdle /\ fo = FoIdle

\* what one load leaves
Loaded(r, outcome) ==
    [r EXCEPT !.loads = @ + 1, !.reads = IF outcome.read THEN @ + 1 ELSE @,
              !.cache = outcome.cache, !.last = outcome.map,
              !.first = IF r.loads = 0 THEN outcome.map ELSE @]

RegistryLoadPro ==
    /\ reg.phase = "run" /\ reg.by = "pro" /\ reg.loads < MaxLoads
    /\ reg' = Loaded(reg, LoadCached(reg.cache, reg.source))
    /\ UNCHANGED <<dom, cl, st, pipeline, lk, som, geo, fo>>

RegistryLoadGpkg ==
    /\ reg.phase = "run" /\ reg.by = "gpkg" /\ reg.loads < MaxLoads
    /\ reg' = Loaded(reg, LoadUncached(reg.cache, reg.source))
    /\ UNCHANGED <<dom, cl, st, pipeline, lk, som, geo, fo>>

\* between two loads the file appears, goes or changes
SourceChanges ==
    /\ reg.phase = "run" /\ reg.loads \in 1..(MaxLoads - 1)
    /\ \E t \in RegistrySources \ {reg.source} : reg' = [reg EXCEPT !.source = t]
    /\ UNCHANGED <<dom, cl, st, pipeline, lk, som, geo, fo>>

NextRegistry == RegistryLoadPro \/ RegistryLoadGpkg \/ SourceChanges

SpecRegistry == InitRegistry /\ [][NextRegistry]_vars

\* ------------------------------------------------------------------------
\* Field operations on a drawn file
\* ------------------------------------------------------------------------
\* most data fields of a drawn file
MaxOpFields == 3

OpNames == {"Direzio", "Direzione", "TIPO", "Tipo", "NUM_RIS", "NUMERORIS", "Note"}

\* a field of a drawn file; its column is tagged with the name it has there
OpField(name) == FieldWith(name, TypeOfLayerField(name), name)

\* the files drawn: no name twice, whatever the case
OpFieldLists ==
    { SystemFieldList \o [i \in 1..Len(q) |-> OpField(q[i])] :
        q \in { x \in UNION { [1..n -> OpNames] : n \in 0..MaxOpFields } :
                  \A i, j \in 1..Len(x) : i # j => Upper(x[i]) # Upper(x[j]) } }

\* rules of the feature configurations
OpRules ==
    { FieldConfigFrom("Num_Ris", "Num_Ris", <<"Num_Ris", "NUMERORIS">>),
      FieldConfigFrom("TIPO", "Tipo", <<"TIPO", "Tipo">>),
      FieldConfig("Direzio", "Direzione"), FieldConfig("Tipo", "Tipo_geo") }

InitFields ==
    /\ fo \in { [FoIdle EXCEPT !.phase = "input", !.fields = f, !.rule = r] :
                 f \in OpFieldLists, r \in OpRules }
    /\ dom = DomIdle /\ cl = ClIdle /\ st = StIdle
    /\ gpkg = GpkgIdle /\ fs = FsIdle /\ run = RunIdle /\ tr = TrIdle
    /\ lk = LkIdle /\ som = SomIdle /\ geo = GeoIdle /\ reg = RegIdle

\* one call of process_field_mapping, as the first of the loop of
\* _process_standard_fields_and_domains
MapField ==
    /\ fo.phase = "input"
    /\ LET r == ProcessFieldMapping(fo.fields, fo.rule, fo.fields)
       IN fo' = [fo EXCEPT !.phase = "done", !.op = "map", !.by = "gpkg",
                           !.found = r.found, !.ok = r.ok, !.out = r.fields]
    /\ UNCHANGED <<dom, cl, st, pipeline, lk, som, geo, reg>>

DirezioneGpkg ==
    /\ fo.phase = "input"
    /\ \E out \in HandleDirezioneField(fo.fields) :
         fo' = [fo EXCEPT !.phase = "done", !.op = "direzione", !.by = "gpkg", !.out = out]
    /\ UNCHANGED <<dom, cl, st, pipeline, lk, som, geo, reg>>

DirezionePro ==
    /\ fo.phase = "input"
    /\ fo' = [fo EXCEPT !.phase = "done", !.op = "direzione", !.by = "pro",
                        !.out = HandleDirezioneFieldPro(fo.fields)]
    /\ UNCHANGED <<dom, cl, st, pipeline, lk, som, geo, reg>>

DirezioneGdb ==
    /\ fo.phase = "input"
    /\ fo' = [fo EXCEPT !.phase = "done", !.op = "direzione", !.by = "gdb",
                        !.out = HandleDirezioneFieldFixed(fo.fields)]
    /\ UNCHANGED <<dom, cl, st, pipeline, lk, som, geo, reg>>

NextFields == MapField \/ DirezioneGpkg \/ DirezionePro \/ DirezioneGdb

SpecFields == InitFields /\ [][NextFields]_vars

\* ------------------------------------------------------------------------
\* One run (process_all_optimized)
\* ------------------------------------------------------------------------
Folders(domini, outputs) ==
    [FsIdle EXCEPT !.domini = domini, !.outputs = outputs,
                   !.shape_dir = IF outputs = NoOutputs THEN "absent" ELSE "present",
                   !.output_dir = IF outputs = NoOutputs THEN "absent" ELSE "present"]

CompleteContainer == Gpkg("valid", FullCatalog, [l \in FullCatalog |-> Column(<<SheetId>>)])

\* every container with a complete domini folder and no earlier output; the
\* complete container also with the other domini folders and with the
\* output folder of an earlier run
Starts ==
    { [gpkg |-> g, fs |-> Folders("complete", NoOutputs)] : g \in Containers }
      \cup { [gpkg |-> CompleteContainer, fs |-> Folders(d, NoOutputs)] : d \in DominiFolders }
      \cup { [gpkg |-> CompleteContainer, fs |-> Folders("complete", StaleOutputs)] }
      \cup { [gpkg |-> Gpkg(p, FullCatalog, [l \in FullCatalog |-> Column(<<SheetId>>)]),
              fs |-> Folders("complete", StaleOutputs)] : p \in {"missing", "not_gpkg"} }
      \cup { [gpkg |-> Gpkg("valid", SmallCatalog, [l \in SmallCatalog |-> NoColumn]),
              fs |-> Folders("complete", StaleOutputs)] }

Init ==
    /\ \E s \in Starts : /\ gpkg = s.gpkg /\ fs = s.fs
                         /\ tr = [TrIdle EXCEPT !.stale = s.fs.outputs # NoOutputs]
    /\ run = [RunIdle EXCEPT !.pc = "setup"]
    /\ dom = DomIdle /\ cl = ClIdle /\ st = StIdle
    /\ CallsIdle

\* a store operation may fail while the run has faults left
CanFault == tr.faults < MaxFaults

Outcomes(all) == IF CanFault THEN all ELSE {"ok"}

Abort(error) == [run EXCEPT !.pc = "aborted", !.error = error]

\* folders that are created where they are missing and left as they are
\* otherwise
RecreatedFolders_KeepFiles(f) ==
    [f EXCEPT !.shape_dir = "present", !.output_dir = "present"]

\* the two folders after safe_remove_directory and os.makedirs
RecreatedFolders(f) ==
    [f EXCEPT !.shape_dir = "present", !.output_dir = "present",
              !.scratch = NoFile, !.outputs = NoOutputs, !.report = FALSE]

\* setup_workspace: both folders are removed and created again; a folder
\* that cannot be removed or created raises RuntimeError
SetupWorkspace ==
    /\ run.pc = "setup"
    /\ \E o \in Outcomes({"ok", "raise"}) :
         IF o = "ok"
         THEN /\ fs' = RecreatedFolders(fs)
              /\ run' = [run EXCEPT !.pc = "validate"]
              /\ tr' = tr
         ELSE /\ run' = Abort("workspace")
              /\ tr' = [tr EXCEPT !.faults = @ + 1]
              /\ fs' = fs
    /\ UNCHANGED <<gpkg, units>>

\* validate_inputs: the three checks of the path, then the sheet id of the
\* first layer that yields one, which must not be empty
ValidateInputs ==
    /\ run.pc = "validate"
    /\ IF InputPathError(gpkg.path) THEN run' = Abort("input")
       ELSE IF FoglioCandidates(gpkg) = {} THEN run' = Abort("sheet")
       ELSE \E foglio \in FoglioCandidates(gpkg) :
              IF FoglioIsEmpty(foglio) THEN run' = Abort("sheet")
              ELSE run' = [run EXCEPT !.pc = "diagnose", !.foglio = foglio]
    /\ UNCHANGED <<gpkg, fs, tr, units>>

\* diagnose_geopackage_quality writes its report; then the list of layers
\* must not be empty and the loop starts with the first theme
DiagnoseQuality ==
    /\ run.pc = "diagnose"
    /\ fs' = [fs EXCEPT !.report = TRUE]
    /\ run' = IF gpkg.layers = {} THEN Abort("no_layers")
              ELSE [run EXCEPT !.pc = "loop", !.idx = 1, !.step = "find"]
    /\ UNCHANGED <<gpkg, tr, units>>

CurrentTheme == feature_order[run.idx]

CurrentConfig == feature_configs[CurrentTheme]

InStep(step) == run.pc = "loop" /\ run.step = step

\* the theme fails: process_feature_class_optimized returns False, its
\* finally clause deletes the scratch copy, the loop counts the failure.
\* faulted tells whether a store operation raised.
FailTheme(faulted) ==
    /\ run' = ThemeFailed(run)
    /\ fs' = [fs EXCEPT !.scratch = NoFile]
    /\ tr' = [tr EXCEPT !.result[CurrentTheme] = "failed",
                        !.faults = IF faulted THEN @ + 1 ELSE @,
                        !.faulted = IF faulted THEN @ \cup {CurrentTheme} ELSE @]

\* the lookup of the theme's layer
FindLayer ==
    /\ InStep("find")
    /\ LET found == FindLayerByPattern(gpkg.layers, SearchPatterns(CurrentTheme), 1)
       IN IF found = {}
          THEN /\ run' = LayerNotFound(run)
               /\ tr' = [tr EXCEPT !.attempts[CurrentTheme] = @ + 1,
                                   !.result[CurrentTheme] = "failed"]
          ELSE /\ \E l \in found : run' = [run EXCEPT !.found = l, !.step = "convert"]
               /\ tr' = [tr EXCEPT !.attempts[CurrentTheme] = @ + 1]
    /\ UNCHANGED <<gpkg, fs, units>>

\* the existence check and step 1: the layer is copied to the scratch
\* folder; the copy may raise, or the layer may not be found by the store
ConvertLayer ==
    /\ InStep("convert")
    /\ \E o \in Outcomes({"ok", "absent", "raise"}) :
         IF o = "ok"
         THEN /\ fs' = [fs EXCEPT !.scratch = ConvertedLayer(CurrentTheme)]
              /\ run' = [run EXCEPT !.step = "fields"]
              /\ tr' = tr
         ELSE FailTheme(TRUE)
    /\ UNCHANGED <<gpkg, units>>

\* steps 2 and 3: fields, domains, special processing, the Foglio field
ProcessFields ==
    /\ InStep("fields")
    /\ LET p == ProcessFieldsAndDomains(CurrentTheme, fs.scratch.fields, gpkg.layers,
                                        fs.domini # "absent",
                                        LoadedDomains(fs.domini, CurrentTheme))
       IN IF p.raised THEN FailTheme(FALSE)
          ELSE /\ \E f \in p.results :
                    fs' = [fs EXCEPT !.scratch.fields = AddFoglioField(f)]
               /\ run' = [run EXCEPT !.step = "cleanup"]
               /\ tr' = [tr EXCEPT !.calls[CurrentTheme] =
                                      FieldCalls(CurrentConfig, fs.domini # "absent")
                                          \o <<"foglio">>]
    /\ UNCHANGED <<gpkg, units>>

\* the fields DeleteField can refuse in a run
Undeletables == IF CanFault THEN {{}, {"FoglioGeol"}} ELSE {{}}

\* step 4
CleanupFields ==
    /\ InStep("cleanup")
    /\ \E u \in Undeletables :
         LET c == CleanupOutputFields(fs.scratch.fields, CurrentConfig.keep_fields, u)
         IN IF c.raised THEN FailTheme(u # {})
            ELSE /\ fs' = [fs EXCEPT !.scratch.fields = c.fields]
                 /\ run' = [run EXCEPT !.step = "save"]
                 /\ tr' = [tr EXCEPT !.faults = IF u # {} THEN @ + 1 ELSE @,
                                     !.calls[CurrentTheme] = @ \o <<"cleanup">>]
    /\ UNCHANGED <<gpkg, units>>

\* step 5: the scratch copy is written under the output name
SaveOutput ==
    /\ InStep("save")
    /\ \E o \in Outcomes({"ok", "raise"}) :
         IF o = "ok"
         THEN /\ fs' = [fs EXCEPT !.outputs[CurrentConfig.output_name] = fs.scratch]
              /\ run' = [run EXCEPT !.step = "standardize"]
              /\ tr' = [tr EXCEPT !.written = @ \cup {CurrentConfig.output_name},
                                  !.calls[CurrentTheme] = @ \o <<"save">>]
         ELSE FailTheme(TRUE)
    /\ UNCHANGED <<gpkg, units>>

\* step 6 and the return: the output is standardized, the scratch copy is
\* deleted, the theme counts as processed
StandardizeOutput ==
    /\ InStep("standardize")
    /\ \E o \in Outcomes(StandardizeOutcomes) :
         /\ \E r \in StandardizeResults(CurrentConfig.output_name,
                                        fs.outputs[CurrentConfig.output_name], o) :
              fs' = [fs EXCEPT !.outputs[CurrentConfig.output_name] = r,
                               !.scratch = NoFile]
         /\ tr' = [tr EXCEPT !.result[CurrentTheme] = "processed",
                             !.faults = IF o # "ok" THEN @ + 1 ELSE @,
                             !.calls[CurrentTheme] = @ \o <<"standardize">>]
    /\ run' = ThemeProcessed(run)
    /\ UNCHANGED <<gpkg, units>>

\* the output names in the order of the themes
OutputNames == [i \in 1..Len(feature_order) |-> feature_configs[feature_order[i]].output_name]

\* what the store does during the merge: the append adds all the rows of the
\* source, adds fewer without raising, or raises after adding some; the
\* deletion of the source and the standardizer succeed or fail
MergeEnv(append, rows, delete, standardize) ==
    [append |-> append, rows |-> rows, delete |-> delete, standardize |-> standardize]

FaultsOf(env) ==
    (IF env.append # "full" THEN 1 ELSE 0) + (IF env.delete # "ok" THEN 1 ELSE 0)
        + (IF env.standardize # "ok" THEN 1 ELSE 0)

MergeEnvs(source_count) ==
    { env \in UNION { { MergeEnv(a, k, d, s) :
                          k \in (IF a = "full" THEN {source_count}
                                 ELSE IF a = "partial" THEN 0..(source_count - 1)
                                 ELSE 0..source_count),
                          d \in {"ok", "raise"}, s \in StandardizeOutcomes } :
                      a \in {"full", "partial", "raise"} } :
        /\ tr.faults + FaultsOf(env) <= MaxFaults
        /\ env.append # "full" => env.delete = "ok"
        /\ (env.append = "raise" \/ env.delete = "raise") => env.standardize = "ok" }

\* a merge that only looks for its destination
MergeSkipped_DestinationOnly(dest, source) == ~dest.exists

\* the two early returns of combine_geology_lines_optimized
MergeSkipped(dest, source) == ~dest.exists \/ ~source.exists

\* combine_geology_lines_optimized with its final standardization
CombineGeologyLines ==
    /\ run.pc = "combine"
    /\ run' = [run EXCEPT !.pc = "standardize_all", !.idx = 1, !.step = "none"]
    /\ LET dest == fs.outputs["geologia_linee.shp"]
           source == fs.outputs["geologia_linee_pieghe.shp"]
       IN IF MergeSkipped(dest, source)
          THEN /\ tr' = [tr EXCEPT !.merge = [MergeIdle EXCEPT !.called = TRUE]]
               /\ fs' = fs
          ELSE \E env \in MergeEnvs(source.rows) :
                 LET dest_count_before == dest.rows
                     source_count == source.rows
                     appended == AppendRows(dest, env.rows)
                     dest_count_after == appended.rows
                     checked == env.append # "raise"
                     matched == checked /\ CountsMatch(dest_count_before, source_count,
                                                        dest_count_after)
                     raised == ~checked \/ (matched /\ env.delete = "raise")
                     deleted == matched /\ env.delete = "ok"
                 IN /\ tr' = [tr EXCEPT !.faults = @ + FaultsOf(env),
                                        !.merge = [called |-> TRUE, ran |-> TRUE,
                                                   checked |-> checked,
                                                   before |-> dest_count_before,
                                                   source |-> source_count,
                                                   appended |-> env.rows,
                                                   after |-> dest_count_after,
                                                   matched |-> matched,
                                                   raised |-> raised]]
                    /\ \E r \in (IF raised THEN {appended}
                                 ELSE StandardizeResults("geologia_linee.shp", appended,
                                                         env.standardize)) :
                         fs' = [fs EXCEPT
                                  !.outputs["geologia_linee.shp"] = r,
                                  !.outputs["geologia_linee_pieghe.shp"] =
                                      IF deleted THEN NoFile ELSE @]
    /\ UNCHANGED <<gpkg, units>>

\* _standardize_all_output_files, one file of the output folder at a time
StandardizeNextFile ==
    /\ run.pc = "standardize_all"
    /\ run' = IF run.idx = Len(OutputNames) THEN [run EXCEPT !.pc = "cleanup"]
              ELSE [run EXCEPT !.idx = @ + 1]
    /\ IF ~fs.outputs[OutputNames[run.idx]].exists THEN fs' = fs /\ tr' = tr
       ELSE \E o \in Outcomes(StandardizeOutcomes) :
              /\ \E r \in StandardizeResults(OutputNames[run.idx],
                                             fs.outputs[OutputNames[run.idx]], o) :
                   fs' = [fs EXCEPT !.outputs[OutputNames[run.idx]] = r]
              /\ tr' = [tr EXCEPT !.faults = IF o # "ok" THEN @ + 1 ELSE @]
    /\ UNCHANGED <<gpkg, units>>

\* final_cleanup_optimized: the scratch folder is removed; a failure is
\* caught and only warned about
FinalCleanup ==
    /\ run.pc = "cleanup"
    /\ \E o \in Outcomes({"ok", "raise"}) :
         /\ fs' = [fs EXCEPT !.shape_dir = IF o = "ok" THEN "absent" ELSE @]
         /\ tr' = [tr EXCEPT !.faults = IF o # "ok" THEN @ + 1 ELSE @]
    /\ run' = [run EXCEPT !.pc = "report"]
    /\ UNCHANGED <<gpkg, units>>

\* the summary: the two counters and the list of output files
ReportResults ==
    /\ run.pc = "report"
    /\ run' = [run EXCEPT !.pc = "done"]
    /\ UNCHANGED <<gpkg, fs, tr, units>>

Next ==
    \/ SetupWorkspace \/ ValidateInputs \/ DiagnoseQuality
    \/ FindLayer \/ ConvertLayer \/ ProcessFields \/ CleanupFields \/ SaveOutput
    \/ StandardizeOutput
    \/ CombineGeologyLines \/ StandardizeNextFile \/ FinalCleanup \/ ReportResults

Spec == Init /\ [][Next]_vars

\* ------------------------------------------------------------------------
\* Properties of the cleanup
\* ------------------------------------------------------------------------
\* C1: whenever the cleanup returns normally the file has at least one data
\* field, it raises exactly when none is left, and a file that reaches the
\* save of step 5 has at least one data field
C1_CleanupNeverEmpty ==
    /\ cl.phase \in {"done", "saved"} =>
          (cl.raised <=> Len(DataFieldNames(cl.out)) = 0)
    /\ cl.persisted => Len(DataFieldNames(cl.out)) >= 1

\* C1 witness: a keep list that shares no field with the file, the rescue
\* kept one field and the cleaned file was saved
C1_Witness ==
    /\ cl.phase = "saved"
    /\ SeqToSet(cl.keep) \cap SeqToSet(FieldNames(cl.fields)) = {}
    /\ RescuedField(cl.fields, cl.keep) # ""
    /\ Len(DataFieldNames(cl.out)) >= 1

\* the file and keep list of scenario D
ScenarioD ==
    /\ cl.keep = <<"Foglio">>
    /\ SeqToSet(DataFieldNames(cl.fields)) = {"Foglio", "TempX"}

\* C6 as stated: with keep = ["Foglio"] on a file holding Foglio and TempX
\* both fields remain after the cleanup
C6_Original ==
    (cl.phase = "done" /\ ScenarioD) =>
        SeqToSet(DataFieldNames(cl.out)) = {"Foglio", "TempX"}

\* C6 amended: Foglio is retained, the rescue does not fire because a kept
\* field remains, TempX is on the deletion list and stays only when the
\* store refuses to delete it
C6_RescueNotFired ==
    (cl.phase = "done" /\ ScenarioD) =>
        /\ ~cl.raised
        /\ "Foglio" \in SeqToSet(DataFieldNames(cl.out))
        /\ RescuedField(cl.fields, cl.keep) = ""
        /\ FinalFieldsToDelete(cl.fields, cl.keep) = <<"TempX">>
        /\ ("TempX" \in SeqToSet(DataFieldNames(cl.out))) <=> ("TempX" \in cl.undeletable)

\* C6 witness: scenario D cleaned with every deletion accepted leaves Foglio
\* alone
C6_Witness ==
    /\ cl.phase = "done"
    /\ ScenarioD
    /\ cl.undeletable = {}
    /\ DataFieldNames(cl.out) = <<"Foglio">>

\* ------------------------------------------------------------------------
\* Properties of the domain registry
\* ------------------------------------------------------------------------
\* a code is numeric: a number, or a text of digits, points and signs that
\* parses as one
IsNumericCode(v) ==
    \/ v.k \in {"int", "float"}
    \/ v.k = "str" /\ IsDigit(Remove(Remove(v.s, "."), "-")) /\ FloatOK(v.s)

\* the logical code a value denotes: its number when it parses as one, else
\* its trimmed text
LogicalCode(v) == IF FloatOK(PyStr(v)) THEN NumKey(FloatValue(PyStr(v)))
                  ELSE StrKey(Strip(PyStr(v)))

\* the logical code a key of the map denotes
KeyLogicalCode(key) == IF key.k = "num" THEN key
                       ELSE IF FloatOK(key.s) THEN NumKey(FloatValue(key.s))
                       ELSE StrKey(Strip(key.s))

\* the forms a code is probed in: its text, its trimmed text and, for a
\* numeric code, its float and (when it is a whole number) its int
ProbeForms(v) ==
    {PyText(PyStr(v)), PyText(Strip(PyStr(v)))}
      \cup (IF IsNumericCode(v)
            THEN {PyFloat(FloatValue(PyStr(v)))}
                   \cup (IF FloatValue(PyStr(v)) % 100 = 0
                         THEN {PyInt(FloatValue(PyStr(v)) \div 100)} ELSE {})
            ELSE {})

ValidRow(r) == r.code.k # "none" /\ r.desc.k # "none"

\* no two rows of the table carry the same logical code
DistinctLogicalCodes(rows) ==
    \A i, j \in 1..Len(rows) :
        (i # j /\ ValidRow(rows[i]) /\ ValidRow(rows[j]))
            => LogicalCode(rows[i].code) # LogicalCode(rows[j].code)

\* C2 as stated, for tables whose rows carry pairwise different logical
\* codes: a lookup of a row's code in its string, trimmed, int or float
\* form returns that row's description
C2_LookupReturnsRowDescription ==
    (dom.phase = "applied" /\ DistinctLogicalCodes(dom.table.rows)) =>
        \A i \in 1..Len(dom.table.rows) :
            (ValidRow(dom.table.rows[i]) /\ dom.probe \in ProbeForms(dom.table.rows[i].code))
                => dom.value = Strip(PyStr(dom.table.rows[i].desc))

\* C3 as stated: a loaded code map never holds two keys of the same logical
\* code with different descriptions
C3_OneDescriptionPerLogicalCode ==
    dom.phase \in {"loaded", "applied"} =>
        \A k1, k2 \in DOMAIN dom.map :
            KeyLogicalCode(k1) = KeyLogicalCode(k2) => dom.map[k1] = dom.map[k2]

\* ------------------------------------------------------------------------
\* Properties of the standardizer
\* ------------------------------------------------------------------------
\* the canonical data fields of an output theme, in order
CanonicalNames(name) == Without(field_standards[name].field_order, {"FID", "Shape"})

\* a file the standardizer produced: its data fields start with the
\* canonical fields of its theme, in order
IsStandardized(name, file) ==
    /\ file.exists
    /\ Len(DataFieldNames(file.fields)) >= Len(CanonicalNames(name))
    /\ SubSeq(DataFieldNames(file.fields), 1, Len(CanonicalNames(name))) = CanonicalNames(name)

\* C7 as stated: a second successful run of the standardizer on a file the
\* first run produced leaves the names and the order of its fields as they
\* were
C7_RerunChangesNoField ==
    (/\ st.phase = "twice"
     /\ st.outcome1 = "ok" /\ st.outcome2 = "ok"
     /\ IsStandardized(st.name, st.first)
     /\ st.second.exists)
        => FieldNames(st.second.fields) = FieldNames(st.first.fields)

\* ------------------------------------------------------------------------
\* The merge of the pieghe output
\* ------------------------------------------------------------------------
Lines == fs.outputs["geologia_linee.shp"]

Pieghe == fs.outputs["geologia_linee_pieghe.shp"]

\* the append added every row of the source and no operation of the merge
\* raised
WellFormedAppend ==
    tr.merge.ran /\ ~tr.merge.raised /\ tr.merge.appended = tr.merge.source

\* C4: after a well-formed append of the pieghe output into the lines
\* output, the count of the destination measured after the append is its
\* count before plus the count of the source, the check matches, the source
\* file no longer exists and the destination, where it exists, holds that
\* many features.
C4_AppendAddsSourceThenDeletesIt ==
    WellFormedAppend =>
        /\ tr.merge.after = tr.merge.before + tr.merge.source
        /\ tr.merge.matched
        /\ ~Pieghe.exists
        /\ Lines.exists => Lines.rows = tr.merge.before + tr.merge.source

C4_Witness ==
    /\ WellFormedAppend
    /\ tr.merge.before >= 1 /\ tr.merge.source >= 1
    /\ tr.merge.after = tr.merge.before + tr.merge.source
    /\ Lines.exists /\ ~Pieghe.exists
    /\ run.pc = "done"

\* the count check of the merge was reached and failed
CountCheckFailed ==
    /\ tr.merge.checked
    /\ tr.merge.after # tr.merge.before + tr.merge.source

\* C5: when the count check after the append fails, the merge step leaves
\* the source file as it was, leaves in the destination the rows the append
\* added, raises nothing and hands over to the rest of the run, which never
\* aborts once the merge has been called.
C5_MismatchKeepsSourceAndRows ==
    /\ [][(run.pc = "combine" /\ CountCheckFailed')
            => /\ Pieghe' = Pieghe
               /\ Pieghe'.exists
               /\ ~tr'.merge.matched /\ ~tr'.merge.raised
               /\ tr'.merge.after = tr'.merge.before + tr'.merge.appended
               /\ Lines'.exists => Lines'.rows = Lines.rows + tr'.merge.appended
               /\ run'.pc = "standardize_all"]_vars
    /\ [](tr.merge.called => run.pc \in {"standardize_all", "cleanup", "report", "done"})

C5_Witness ==
    /\ CountCheckFailed
    /\ tr.merge.source >= 1 /\ tr.merge.appended < tr.merge.source
    /\ Pieghe.exists /\ Lines.exists
    /\ Lines.rows = tr.merge.before + tr.merge.appended
    /\ run.pc = "done"

\* ------------------------------------------------------------------------
\* The theme loop
\* ------------------------------------------------------------------------
AfterLoop == {"combine", "standardize_all", "cleanup", "report", "done"}

Failed == { t \in Themes : tr.result[t] = "failed" }

Position(t) == CHOOSE i \in 1..Len(feature_order) : feature_order[i] = t

\* the outcome of a theme none of whose store operations fails: it depends
\* on the container and on the domini folder alone
ThemeOutcome(t) ==
    LET p == ProcessFieldsAndDomains(t, ConvertedLayer(t).fields, gpkg.layers,
                                     fs.domini # "absent", LoadedDomains(fs.domini, t))
    IN IF FindLayerByPattern(gpkg.layers, SearchPatterns(t), 1) = {} THEN "failed"
       ELSE IF p.raised THEN "failed"
       ELSE IF \E f \in p.results :
                 CleanupOutputFields(AddFoglioField(f), feature_configs[t].keep_fields,
                                     {}).raised
            THEN "failed"
       ELSE "processed"

\* C8: an exception raised while a theme is handled never leaves the loop
\* (the run only aborts before the first theme).  The step that ends a
\* theme finds it attempted once, counts it once as failed or as processed
\* and moves to the next theme or to the merge: a theme one of whose store
\* operations raised is failed, every other theme, also one handled after a
\* failing theme, has the outcome its own layer and configuration give it.
\* Every theme has been attempted exactly once when the loop is over.
C8_FailureIsolation ==
    /\ [][\A t \in Themes :
             (tr.result[t] = "none" /\ tr'.result[t] # "none")
                 => /\ tr'.attempts[t] = 1
                    /\ t \in tr'.faulted => tr'.result[t] = "failed"
                    /\ t \notin tr'.faulted => tr'.result[t] = ThemeOutcome(t)
                    /\ run'.failed_count =
                           run.failed_count + (IF tr'.result[t] = "failed" THEN 1 ELSE 0)
                    /\ run'.processed_count =
                           run.processed_count + (IF tr'.result[t] = "processed" THEN 1 ELSE 0)
                    /\ run'.pc = IF Position(t) < Len(feature_order) THEN "loop" ELSE "combine"
                    /\ \A u \in Themes \ {t} : tr'.result[u] = tr.result[u]]_vars
    /\ [](/\ run.pc = "aborted" => \A t \in Themes : tr.attempts[t] = 0
          /\ tr.faulted \subseteq Failed
          /\ run.failed_count = Cardinality(Failed)
          /\ \A t \in Themes : tr.attempts[t] <= 1
          /\ run.pc \in AfterLoop =>
                 \A t \in Themes : tr.attempts[t] = 1 /\ tr.result[t] # "none")

C8_Witness ==
    /\ run.pc = "done"
    /\ tr.faulted = {"ST011Polygon"}
    /\ tr.result["ST010Point"] = "processed"
    /\ \A t \in Themes \ {"ST011Polygon"} : tr.result[t] = "processed"
    /\ run.failed_count = 1

\* ------------------------------------------------------------------------
\* Input validation
\* ------------------------------------------------------------------------
\* no layer of the container holds a sheet id that is neither null nor empty
NoLayerYieldsSheetId(g) ==
    \A l \in g.layers :
        \/ g.sheet[l].kind # "column"
        \/ \A i \in 1..Len(g.sheet[l].values) :
               \/ g.sheet[l].values[i].k = "none"
               \/ Strip(PyStr(g.sheet[l].values[i])) = <<>>

InvalidInput == InputPathError(gpkg.path) \/ NoLayerYieldsSheetId(gpkg)

\* C9: with a missing or invalid container, or with no layer yielding a
\* sheet id, the run never gets past validation: it ends aborted with an
\* error, no theme is attempted or processed, no output is written and the
\* merge is never called.
C9_InvalidInputAborts ==
    (run.pc # "idle" /\ InvalidInput) =>
        /\ run.pc \in {"setup", "validate", "aborted"}
        /\ run.pc = "aborted" => run.error \in {"workspace", "input", "sheet"}
        /\ \A t \in Themes : tr.attempts[t] = 0 /\ tr.result[t] = "none"
        /\ run.processed_count = 0
        /\ tr.written = {}
        /\ ~fs.scratch.exists
        /\ ~tr.merge.called

C9_Witness ==
    /\ gpkg.path = "valid" /\ gpkg.layers # {}
    /\ NoLayerYieldsSheetId(gpkg)
    /\ \E l \in gpkg.layers : HasNonNull(gpkg.sheet[l].values)
    /\ run.pc = "aborted" /\ run.error = "sheet"
    /\ tr.written = {} /\ ~tr.merge.called

\* ------------------------------------------------------------------------
\* A theme without a layer
\* ------------------------------------------------------------------------
NoLayerFor(t) == FindLayerByPattern(gpkg.layers, SearchPatterns(t), 1) = {}

\* C10: when no search pattern of the current theme matches a layer, the
\* lookup step leaves the scratch and output folders as they are, adds one
\* to the failed count and nothing to the processed count, and moves to the
\* next theme or, after the last, to the merge; every theme has been
\* attempted when the loop is over.
C10_MissingLayerSkipsTheme ==
    /\ [][(InStep("find") /\ NoLayerFor(CurrentTheme))
            => /\ fs' = fs
               /\ tr'.written = tr.written
               /\ run'.failed_count = run.failed_count + 1
               /\ run'.processed_count = run.processed_count
               /\ run'.idx = run.idx + 1
               /\ run'.pc = IF run.idx < Len(feature_order) THEN "loop" ELSE "combine"
               /\ run'.pc = "loop" => run'.step = "find"]_vars
    /\ [](run.pc \in AfterLoop => \A t \in Themes : tr.attempts[t] = 1)

C10_Witness ==
    /\ run.pc = "done"
    /\ NoLayerFor("ST012Polyline")
    /\ tr.result["ST012Polyline"] = "failed"
    /\ ~fs.outputs["geomorfologia_linee.shp"].exists
    /\ tr.result["ST013Point"] = "processed"
    /\ fs.outputs["risorse_prospezioni.shp"].exists
    /\ run.failed_count = 2

\* ------------------------------------------------------------------------
\* C11, C17: layer lookup
\* ------------------------------------------------------------------------
\* the layer's name holds the pattern, whatever the case
Holds(layer, pattern) == Contains(LowerName(layer), LowerName(pattern))

\* the layers of the drawn catalog that hold one of the drawn patterns
Hits ==
    { l \in SeqToSet(lk.layers) : \E i \in 1..Len(lk.patterns) : Holds(l, lk.patterns[i]) }

ScenarioB ==
    /\ lk.patterns = << <<"ST018Polygon">> >>
    /\ SeqToSet(lk.layers) = { <<"main", ".", "ST018Polygon">>, <<"main", ".", "ST018Polyline">> }

\* C11: the lookup returns nothing exactly when no layer of the catalog holds
\* any of the patterns, whatever the case; otherwise it returns one layer of
\* the catalog, under its catalog name, that holds one of the patterns; the
\* pattern ST018Polygon against main.ST018Polygon and main.ST018Polyline
\* returns main.ST018Polygon.
C11_FindReturnsMatchOrNone ==
    lk.phase = "found" =>
        /\ (lk.found = {}) <=> (Hits = {})
        /\ lk.found \subseteq Hits
        /\ Cardinality(lk.found) <= 1
        /\ ScenarioB => lk.found = { <<"main", ".", "ST018Polygon">> }

\* the geopackage converter has answered scenario B
C11_Witness ==
    /\ lk.phase = "found"
    /\ lk.by = "gpkg"
    /\ ScenarioB
    /\ lk.found = { <<"main", ".", "ST018Polygon">> }

\* the first pattern, in declaration order, that some layer of the catalog holds
FirstPatternHeld ==
    CHOOSE i \in 1..Len(lk.patterns) :
        /\ \E l \in SeqToSet(lk.layers) : Holds(l, lk.patterns[i])
        /\ \A j \in 1..(i - 1) : \A l \in SeqToSet(lk.layers) : ~Holds(l, lk.patterns[j])

\* the layers whose name is the pattern, whatever the case
NamedBy(pattern) == { l \in SeqToSet(lk.layers) : LowerName(l) = LowerName(pattern) }

\* the layer returned is a match of the first pattern that has a match, and
\* a layer named by that pattern when the catalog has one
ExactThenPartialInOrder ==
    lk.found # {} =>
        /\ \A l \in lk.found : Holds(l, lk.patterns[FirstPatternHeld])
        /\ NamedBy(lk.patterns[FirstPatternHeld]) # {}
              => lk.found \subseteq NamedBy(lk.patterns[FirstPatternHeld])

\* C17: the lookup takes the patterns in declaration order and, for each,
\* looks through the whole catalog for a layer named by the pattern before
\* it takes a layer that only holds the pattern: a layer named by pattern i
\* wins over a layer holding pattern i, and any match of pattern i wins over
\* any match of a later pattern (geopackage and geodatabase converters).
C17_ExactBeforePartialInPatternOrder ==
    (lk.phase = "found" /\ lk.by \in {"gpkg", "gdb"}) => ExactThenPartialInOrder

\* ------------------------------------------------------------------------
\* C12: flag normalisation
\* ------------------------------------------------------------------------
One == { PyInt(1), PyFloat(100), PyText(<<"1">>), PyText(<<"1", ".", "0">>) }

Two == { PyInt(2), PyFloat(200), PyText(<<"2">>), PyText(<<"2", ".", "0">>) }

\* C12: the flag normalisation writes SI exactly for the number 1 and the
\* texts "1" and "1.0", NO exactly for the number 2 and the texts "2" and
\* "2.0", and the empty text for every other value, null, "x" and 3 among
\* them.
C12_FlagIsSiNoOrEmpty ==
    som.phase = "written" =>
        \A i \in 1..Len(som.column) :
            som.out[i] = (IF som.column[i] \in One THEN <<"S", "I">>
                          ELSE IF som.column[i] \in Two THEN <<"N", "O">>
                          ELSE <<>>)

\* ------------------------------------------------------------------------
\* C13: the load fails softly
\* ------------------------------------------------------------------------
\* the file is not there, or no field of the table matches the description
\* pattern, or the table has no code field
GivesUp(table) == ~table.exists \/ ~table.hasDesc \/ ~table.hasCode

\* C13: the load of a domain table never raises; for a file that does not
\* exist, a table without a field matching the description pattern and a
\* table without the code field it returns an empty map.
C13_LoadNeverRaises ==
    dom.phase # "table" =>
        /\ dom.phase # "raised"
        /\ ~dom.raised
        /\ GivesUp(dom.table) => dom.map = EmptyMap

\* a table with rows and a description field but no code field was loaded
C13_Witness ==
    /\ dom.phase = "loaded"
    /\ dom.table = Table(TRUE, TRUE, FALSE, <<PlainRow>>, "none")
    /\ dom.map = EmptyMap

\* ------------------------------------------------------------------------
\* C14: missing domain tables
\* ------------------------------------------------------------------------
\* the output fields of a theme with the domain table each is resolved
\* through: the field the mapping writes and the name the standard gives it
ResolvedThrough(t) ==
    LET standard == field_standards[feature_configs[t].output_name].field_mappings
        named(f, d) ==
            { [name |-> f, domain |-> d] }
              \cup { [name |-> standard[k], domain |-> d] :
                       k \in { x \in DOMAIN standard : Upper(x) = Upper(f) } }
    IN IF t = "ST018Polygon"
       THEN UNION { named(f, geology_domain_files[f]) : f \in DOMAIN geology_domain_files }
       ELSE UNION { named(feature_configs[t].domains[i].field,
                          feature_configs[t].domains[i].domain) :
                      i \in 1..Len(feature_configs[t].domains) }

\* the domain tables of a theme that give no code map in this run
Unloaded(t) == DomainNames(t) \ LoadedDomains(fs.domini, t)

\* the outcome of a theme none of whose store operations fails, had every
\* domain table been there
OutcomeWithAllDomains(t) ==
    LET p == ProcessFieldsAndDomains(t, ConvertedLayer(t).fields, gpkg.layers,
                                     TRUE, DomainNames(t))
    IN IF FindLayerByPattern(gpkg.layers, SearchPatterns(t), 1) = {} THEN "failed"
       ELSE IF p.raised THEN "failed"
       ELSE IF \E f \in p.results :
                 CleanupOutputFields(AddFoglioField(f), feature_configs[t].keep_fields,
                                     {}).raised
            THEN "failed"
       ELSE "processed"

\* every field of the theme's output that a missing table should have
\* resolved is a text field holding nothing
UnresolvedFieldsAreEmpty(t) ==
    LET out == fs.outputs[feature_configs[t].output_name]
    IN \A i \in 1..Len(out.fields) :
          (\E r \in ResolvedThrough(t) :
              /\ Upper(r.name) = Upper(out.fields[i].name)
              /\ r.domain \in Unloaded(t))
             => out.fields[i].content = "empty" /\ out.fields[i].type = "String"

\* C14 in the runs of the geopackage converter: a domain table that is
\* missing, or whose code or description field is not found, does not make
\* the theme fail, and every output value that
\* would have been resolved through it, in the standard themes and in the
\* five vocabularies of the polygon theme, is the empty text.
C14_MissingDomainGivesEmptyText ==
    /\ [][\A t \in Themes :
             (tr.result[t] = "none" /\ tr'.result[t] # "none" /\ t \notin tr'.faulted)
                 => tr'.result[t] = OutcomeWithAllDomains(t)]_vars
    /\ [](\A t \in Themes :
             (tr.result[t] = "processed" /\ fs.outputs[feature_configs[t].output_name].exists)
                 => UnresolvedFieldsAreEmpty(t))

\* C14 for one polygon of either converter: when the domain table is missing
\* or lacks its code or description field, the vocabulary text written for
\* the polygon is the empty text.
C14_UnloadedVocabularyIsEmpty ==
    (dom.phase = "joined" /\ GivesUp(dom.table)) => dom.value = <<>>

\* a run without the domini folder has ended: the polygon theme and a point
\* theme are processed and their vocabularies are empty text fields
C14_Witness ==
    /\ run.pc = "done"
    /\ fs.domini = "absent"
    /\ tr.result["ST018Polygon"] = "processed"
    /\ tr.result["ST010Point"] = "processed"
    /\ \E i \in 1..Len(fs.outputs["geologia_poligoni.shp"].fields) :
          /\ fs.outputs["geologia_poligoni.shp"].fields[i].name = "Tipo_UQ"
          /\ fs.outputs["geologia_poligoni.shp"].fields[i].content = "empty"
    /\ \E i \in 1..Len(fs.outputs["geomorfologia_punti.shp"].fields) :
          /\ fs.outputs["geomorfologia_punti.shp"].fields[i].name = "Tipo_Gmrf"
          /\ fs.outputs["geomorfologia_punti.shp"].fields[i].content = "empty"

\* ------------------------------------------------------------------------
\* C15: missing auxiliary tables
\* ------------------------------------------------------------------------
\* C15: when an auxiliary table of the polygon theme (table 1, 2 or 3) is
\* missing, the polygon theme is aborted: it does not go on to its joins and
\* gives no output.
C15_MissingTableAbortsPolygons ==
    (geo.phase = "done" /\ MissingAuxiliaryTables(geo.tables) # {})
        => (~geo.ok /\ geo.joined = {})

\* ------------------------------------------------------------------------
\* C19: the cache of the domain loader
\* ------------------------------------------------------------------------
\* C19: once a load has returned a code map for a key, an empty one too,
\* every later load of that key returns the same map and does not touch the
\* source again, whether or not the file appeared or changed in between.
C19_LaterLoadsReturnFirstMap ==
    reg.loads >= 2 => (reg.last = reg.first /\ reg.reads = 1)

\* ------------------------------------------------------------------------
\* C16: the probes of a lookup
\* ------------------------------------------------------------------------
\* the keys a value is probed under, in order: the value itself, its trimmed
\* text, the float its text parses to and the int of that float
ProbeChain(v) ==
    <<KeyOf(v), StrKey(Strip(PyStr(v)))>>
      \o (IF FloatOK(Strip(PyStr(v)))
          THEN <<NumKey(FloatValue(Strip(PyStr(v)))),
                 NumKey(IntOfFloat(FloatValue(Strip(PyStr(v)))))>>
          ELSE <<>>)

\* the description under the first key of the chain the map holds
FirstHit(code_map, chain) ==
    IF \E i \in 1..Len(chain) : chain[i] \in DOMAIN code_map
    THEN code_map[chain[CHOOSE i \in 1..Len(chain) :
                          /\ chain[i] \in DOMAIN code_map
                          /\ \A j \in 1..(i - 1) : chain[j] \notin DOMAIN code_map]]
    ELSE <<>>

\* some row of the table carries the logical code of the value
CodeOfSomeRow(rows, v) ==
    \E i \in 1..Len(rows) : ValidRow(rows[i]) /\ LogicalCode(rows[i].code) = LogicalCode(v)

\* C16: a lookup probes the code map with the raw value, its trimmed text,
\* its parsed float and its parsed int, in that order, and returns the first
\* hit; it returns the empty text for null and for every value whose logical
\* code is the code of no row (1.7 does not get the description of code 1).
C16_ProbesInOrderElseEmpty ==
    dom.phase = "applied" =>
        /\ dom.probe.k = "none" => dom.value = <<>>
        /\ dom.probe.k # "none" => dom.value = FirstHit(dom.map, ProbeChain(dom.probe))
        /\ (dom.probe.k # "none" /\ ~CodeOfSomeRow(dom.table.rows, dom.probe))
              => dom.value = <<>>

\* ------------------------------------------------------------------------
\* C18: one theme at a time, the merge last
\* ------------------------------------------------------------------------
OutputOf(t) == feature_configs[t].output_name

\* C18: the themes are handled strictly one after another: while a theme is
\* handled every theme before it has ended, processed or failed, no theme
\* after it has been touched, and only its own output file changes; the
\* merge starts only after every theme has been attempted, whatever the
\* outcome of each theme.
C18_ThemesInSequenceThenMerge ==
    /\ [](run.pc = "loop" =>
            \A t \in Themes :
                /\ Position(t) < run.idx => (tr.result[t] # "none" /\ tr.attempts[t] = 1)
                /\ Position(t) >= run.idx => tr.result[t] = "none"
                /\ Position(t) > run.idx =>
                      (tr.attempts[t] = 0 /\ OutputOf(t) \notin tr.written))
    /\ [][run.pc = "loop" =>
            \A t \in Themes :
                fs'.outputs[OutputOf(t)] # fs.outputs[OutputOf(t)] => t = CurrentTheme]_vars
    /\ [][(~tr.merge.called /\ tr'.merge.called) =>
            (run.pc = "combine" /\ \A t \in Themes :
                                     tr.attempts[t] = 1 /\ tr.result[t] # "none")]_vars
    /\ [](tr.merge.called => \A t \in Themes : tr.result[t] # "none")

\* the merge has run after a loop in which the first theme failed and the
\* last was processed
C18_Witness ==
    /\ tr.merge.called
    /\ tr.result[feature_order[1]] = "failed"
    /\ tr.result[feature_order[Len(feature_order)]] = "processed"
    /\ \A t \in Themes : tr.attempts[t] = 1

\* ------------------------------------------------------------------------
\* C20: the standardizer drops no field
\* ------------------------------------------------------------------------
\* the names a field of a theme's file may carry after the standardizer:
\* the canonical name its rename rule gives it, or its own name
NamesAfter(name, field_name) ==
    {field_name}
      \cup (IF field_name \in DOMAIN field_standards[name].field_mappings
            THEN {field_standards[name].field_mappings[field_name]} ELSE {})

\* every data field of the file before is a field of the file after, and
\* the file after has no fewer data fields
AllFieldsKept(name, before, after) ==
    /\ \A n \in SeqToSet(DataFieldNames(before.fields)) :
          NamesAfter(name, n) \cap SeqToSet(DataFieldNames(after.fields)) # {}
    /\ Len(DataFieldNames(after.fields)) >= Len(DataFieldNames(before.fields))

FieldNamed(file, n) == file.fields[CHOOSE j \in 1..Len(file.fields) : file.fields[j].name = n]

\* the old names of a theme's rename table that give a canonical name and
\* are fields of the file
LegacySources(name, canonical, file) ==
    { old \in DOMAIN field_standards[name].field_mappings :
        /\ field_standards[name].field_mappings[old] = canonical
        /\ old \in SeqToSet(FieldNames(file.fields)) }

\* the canonical field of the file after is the projection of a legacy
\* field of the file before if there is one, else of the field that had the
\* canonical name, else an empty field of the type its name suggests
TakenFrom(name, canonical, before, after) ==
    LET f == FieldNamed(after, canonical)
    IN IF LegacySources(name, canonical, before) # {}
       THEN \E old \in LegacySources(name, canonical, before) :
               /\ f.type = FieldNamed(before, old).type
               /\ f.content = FieldNamed(before, old).content
       ELSE IF canonical \in SeqToSet(FieldNames(before.fields))
       THEN /\ f.type = FieldNamed(before, canonical).type
            /\ f.content = FieldNamed(before, canonical).content
       ELSE f.type = GetFieldTypeFromName(canonical) /\ f.content = "empty"

\* C21: after the standardization of a theme's file every canonical field
\* of the theme that is not a system field is in the file, in the canonical
\* order, taken from the field the rename table names if the file had it,
\* else from the field of the canonical name, else synthesized empty.
C21_CanonicalFieldsInOrder ==
    (st.phase = "once" /\ st.completed1) =>
        /\ IsStandardized(st.name, st.first)
        /\ \A c \in SeqToSet(CanonicalNames(st.name)) :
              TakenFrom(st.name, c, st.before, st.first)

\* ------------------------------------------------------------------------
\* C22: the source of a rename rule
\* ------------------------------------------------------------------------
\* the file has a field of that name, whatever the case
HasField(fields, name) == \E i \in 1..Len(fields) : Upper(fields[i].name) = Upper(name)

\* the candidates of the rule the file has
Candidates(rule, fields) ==
    { i \in 1..Len(rule.sources) : HasField(fields, rule.sources[i]) }

\* C22: process_field_mapping takes as source the first candidate of the
\* rule, in list order, that the file has under case-insensitive
\* comparison; when the file has none it returns failure and leaves the
\* fields of the file as they were, the target field is not created.
C22_FirstExistingCandidate ==
    (fo.phase = "done" /\ fo.op = "map") =>
        IF Candidates(fo.rule, fo.fields) = {}
        THEN ~fo.ok /\ fo.out = fo.fields
        ELSE LET first == CHOOSE i \in Candidates(fo.rule, fo.fields) :
                             \A j \in Candidates(fo.rule, fo.fields) : i <= j
             IN /\ fo.ok
                /\ Upper(fo.found) = Upper(fo.rule.sources[first])
                /\ fo.found \in FieldNameSet(fo.fields)

\* the file has NUMERORIS and not Num_Ris: the second candidate was taken
C22_Witness ==
    /\ fo.phase = "done" /\ fo.op = "map"
    /\ fo.rule.sources = <<"Num_Ris", "NUMERORIS">>
    /\ fo.found = "NUMERORIS"
    /\ fo.ok

\* ------------------------------------------------------------------------
\* C23: Direzio and Direzione on the polygon theme
\* ------------------------------------------------------------------------
\* the file has a field of that name whose column holds the values tagged
HoldsValuesOf(fields, name, tag) ==
    \E i \in 1..Len(fields) : fields[i].name = name /\ fields[i].content = tag

\* C23: after the direction fields of the polygon theme were reconciled: a
\* file that had the legacy field only has the canonical field with the
\* legacy values and no legacy field; a file that had both has lost the
\* legacy field only and kept the canonical field with its values; the
\* canonical field is never removed.
C23_DirezioneReconciled ==
    (fo.phase = "done" /\ fo.op = "direzione") =>
        LET legacy == "Direzio" \in FieldNameSet(fo.fields)
            canonical == "Direzione" \in FieldNameSet(fo.fields)
        IN /\ (legacy /\ ~canonical) =>
                 /\ HoldsValuesOf(fo.out, "Direzione", "Direzio")
                 /\ "Direzio" \notin FieldNameSet(fo.out)
           /\ (legacy /\ canonical) =>
                 /\ HoldsValuesOf(fo.out, "Direzione", "Direzione")
                 /\ "Direzio" \notin FieldNameSet(fo.out)
                 /\ Len(fo.out) = Len(fo.fields) - 1
           /\ canonical => "Direzione" \in FieldNameSet(fo.out)

\* ------------------------------------------------------------------------
\* C24: the sheet field
\* ------------------------------------------------------------------------
\* C24: the sheet field of a theme holds the description the sheet domain
\* table maps the sheet number of the run to, and the sheet number itself
\* when the table does not map it or could not be loaded.
C24_SheetFieldHoldsDescription ==
    dom.phase = "sheet" =>
        dom.value = IF StrKey(dom.probe.s) \in DOMAIN dom.map
                    THEN dom.map[StrKey(dom.probe.s)]
                    ELSE dom.probe.s

\* ------------------------------------------------------------------------
\* C25: the order of the calls of a theme
\* ------------------------------------------------------------------------
CallOrder == <<"mapper", "domains", "special", "foglio", "cleanup", "save", "standardize">>

\* the calls of q that are in CallOrder come in that order, each once
InCallOrder(q) ==
    \A i, j \in 1..Len(q) :
        i < j => \E a, b \in 1..Len(CallOrder) :
                    a < b /\ CallOrder[a] = q[i] /\ CallOrder[b] = q[j]

\* C25: for every theme processed, the themes with a special_processing tag
\* included: the rename rules of its configuration went through the field
\* mapper and its domain rules through the domain application before the
\* special processing ran, and the sheet field, the cleanup, the save and
\* the standardizer followed in that order.
C25_MapperAndDomainsBeforeSpecial ==
    \A t \in Themes :
        tr.result[t] = "processed" =>
            LET config == feature_configs[t]
                made == SeqToSet(tr.calls[t])
            IN /\ InCallOrder(tr.calls[t])
               /\ Len(config.fields) > 0 => "mapper" \in made
               /\ (Len(config.domains) > 0 /\ fs.domini # "absent") => "domains" \in made
               /\ config.special_processing # "none" => "special" \in made
               /\ {"foglio", "cleanup", "save", "standardize"} \subseteq made

\* ------------------------------------------------------------------------
\* C26: the two counters
\* ------------------------------------------------------------------------
\* C26: once the theme loop is over, on every path through it, the number of
\* themes processed and the number of themes failed add up to the number of
\* configured themes; while the loop runs they add up to the number of
\* themes it has left behind.
C26_CountsAddUp ==
    /\ run.pc \in AfterLoop =>
           run.processed_count + run.failed_count = Len(feature_order)
    /\ run.pc = "loop" => run.processed_count + run.failed_count = run.idx - 1

\* a run that is over with themes processed, a theme without layer and a
\* theme that failed on a store operation
C26_Witness ==
    /\ run.pc = "done"
    /\ run.processed_count > 0
    /\ run.failed_count = 3
    /\ tr.faulted # {}
    /\ \E t \in Themes : tr.result[t] = "failed" /\ NoLayerFor(t)

\* ------------------------------------------------------------------------
\* C27: the replacement of the output
\* ------------------------------------------------------------------------
\* C27: whenever the standardizer returns, whichever of its steps succeeded
\* or failed, a file exists under the name of the output it was called on.
C27_OutputSurvivesStandardizer ==
    /\ st.phase \in {"once", "twice"} => st.first.exists
    /\ st.phase = "twice" => st.second.exists

\* ------------------------------------------------------------------------
\* C28: one field per canonical name
\* ------------------------------------------------------------------------
\* the fields of the file that stand for the canonical name: the field of
\* that name and the copy the store sets beside it under a suffixed name
StandingFor(file, canonical) ==
    { i \in 1..Len(file.fields) : file.fields[i].name \in {canonical, canonical \o "_1"} }

\* C28: in the output of a completed run of the standardizer no two fields
\* are projected under one canonical name: the names of the output differ
\* from one another, and a file that held a field under a legacy name and a
\* field under the canonical name it maps to is left with exactly one field
\* for that canonical name.
C28_OneFieldPerCanonicalName ==
    (st.phase = "once" /\ st.completed1) =>
        /\ \A i, j \in 1..Len(st.first.fields) :
               i # j => Upper(st.first.fields[i].name) # Upper(st.first.fields[j].name)
        /\ \A old \in DOMAIN field_standards[st.name].field_mappings :
               LET canonical == field_standards[st.name].field_mappings[old]
               IN ({old, canonical} \subseteq FieldNameSet(st.before.fields)
                      /\ canonical \in SeqToSet(CanonicalNames(st.name)))
                    => Cardinality(StandingFor(st.first, canonical)) = 1

\* ------------------------------------------------------------------------
\* C29: the merge without one of its two files
\* ------------------------------------------------------------------------
\* C29: when the lines output or the pieghe output is absent the merge step
\* does nothing: no file of the output folder is deleted, appended to or
\* standardized again, and no store operation is attempted; a pieghe output
\* whose lines output is absent stays in the output folder.
C29_MergeWithoutBothIsNoOp ==
    [][(/\ run.pc = "combine"
        /\ \/ ~fs.outputs["geologia_linee.shp"].exists
           \/ ~fs.outputs["geologia_linee_pieghe.shp"].exists)
          => /\ fs' = fs
             /\ tr'.merge.called /\ ~tr'.merge.ran
             /\ tr'.merge.appended = 0
             /\ tr'.faults = tr.faults
             /\ run'.pc = "standardize_all"]_vars

\* the lines theme failed, the pieghe theme was processed, the merge was
\* called and the pieghe output is still there
C29_Witness ==
    /\ run.pc = "standardize_all" /\ run.idx = 1
    /\ tr.merge.called /\ ~tr.merge.ran
    /\ tr.result["ST018Polyline"] = "failed"
    /\ tr.result["ST021Polyline"] = "processed"
    /\ ~fs.outputs["geologia_linee.shp"].exists
    /\ fs.outputs["geologia_linee_pieghe.shp"].exists

\* ------------------------------------------------------------------------
\* C30: the output folder of an earlier run
\* ------------------------------------------------------------------------
\* every file of the output folder was written by this run
OnlyOwnOutputs ==
    \A f \in StandardFiles : fs.outputs[f].exists => f \in tr.written

\* the run is past setup_workspace
WorkspaceIsSet == run.pc # "setup" /\ ~(run.pc = "aborted" /\ run.error = "workspace")

====
